---- MODULE Spec2Model ----
(***************************************************************************)
(* A model of the VNS heuristic for the Assembly Line Worker Assignment    *)
(* and Balancing Problem (METODO_HEURISTICA/src/alwabp_vns.py).            *)
(*                                                                         *)
(* Arrays are functions over 0..len-1, as the Python lists they model.     *)
(* Solutions are objects on a heap and are held by reference, so that two  *)
(* names of one object (s_initial, s_current, ...) see each other's        *)
(* re-evaluation.                                                          *)
(***************************************************************************)
EXTENDS Integers, Sequences, FiniteSets, TLC

\* ------------------------------------------------------------------ bounds
MaxTasks == 3
MaxWorkers == 2
MaxTime == 2
MaxIncap == 1
MaxPrec == 1
MaxEvals == 2
MaxIter == 1
MaxKMax == 4
MaxPrecGen == 3
MaxStarts == 3

\* program constants
NumStarts == 3
ShakeAttempts == 10

\* float('inf'): larger than every finite station total of the model
INF == MaxTime * (MaxTasks + 1) + 1

VARIABLES
    inst,           \* the ALWABPInstance: num_tasks, num_workers, task_times, precedences
    num_starts,     \* generate_initial_solution_multi parameter
    max_iter,       \* vns parameter
    k_max,          \* vns parameter
    time_limit,     \* vns parameter: TRUE when a time limit is configured
    heap,           \* the ALWABPSolution objects alive, a sequence indexed by reference
    best,           \* generate_initial_solution_multi: best (a reference, 0 is None)
    starts,         \* generate_initial_solution_multi: starts done
    s_initial,      \* vns: references (0 before assignment)
    s_best,
    s_current,
    s_prime,
    s_prime_prime,
    k,              \* vns: neighbourhood index
    iteration,      \* vns: iteration counter
    attempt,        \* shaking: candidates generated so far in this call
    vnd_l,          \* vnd: l, the index of the local search to apply
    pc,             \* the position of the program
    evals,          \* evaluation alone: how many times evaluate() has run on the object
    produced,       \* the fields of the initial solution as the multi-start generator produced it
    twin,           \* a second run of vns on the same inputs and the same random draws
    stdin,          \* from_stdin: the lines of the standard input, each a sequence of tokens
    parsed,         \* from_stdin: the lines read so far and the locals num_tasks, num_workers,
                    \* task_times_raw, precedences
    lists,          \* the list objects solutions refer to, where the identity of lists is modelled
    search          \* the locals of the local search that is running, where its loops are stepped

vars == <<search, lists, stdin, parsed, inst, vnd_l, num_starts, max_iter, k_max, time_limit, heap, best, starts, s_initial, s_best,
          s_current, s_prime, s_prime_prime, k, iteration, attempt, pc, evals, produced, twin>>

vnsVars == <<search, lists, vnd_l, num_starts, max_iter, k_max, time_limit, best, starts, s_initial, s_best, s_current,
             s_prime, s_prime_prime, k, iteration, attempt, produced, twin>>

\* ---------------------------------------------------------------- instance
Range0(len) == 0 .. (len - 1)

\* len(instance.predecessors[j1]) for a 1-based task j1
predecessors(I, j1) ==
    [p \in { q \in 1..Len(I.precedences) : I.precedences[q][2] = j1 } |-> I.precedences[p][1]]

\* the time matrix of the instance family: worker w needs 1 + ((w + i) mod MaxTime)
\* for task i, unless the cell is one of the incapacitated ones
TimeMatrix(n, m, incap) ==
    [w \in Range0(m) |-> [i \in Range0(n) |->
        IF <<w, i>> \in incap THEN INF ELSE 1 + ((w + i) % MaxTime)]]

IncapSets(n, m) ==
    { c \in SUBSET (Range0(m) \X Range0(n)) : Cardinality(c) <= MaxIncap }

\* precedence lists: at most MaxPrec pairs of 1-based tasks, listed in increasing order
PairLt(p, q) == p[1] < q[1] \/ (p[1] = q[1] /\ p[2] < q[2])

PrecListsUpTo(n, max_prec) ==
    UNION { { l \in [1..len -> (1..n) \X (1..n)] :
                \A a \in 1..len, b \in 1..len : a < b => PairLt(l[a], l[b]) }
            : len \in 0..max_prec }

PrecLists(n) == PrecListsUpTo(n, MaxPrec)

ALWABPInstance(n, m, tt, precs) ==
    [num_tasks |-> n, num_workers |-> m, task_times |-> tt, precedences |-> precs]

\* the instances from_stdin can build, with at most max_prec precedence pairs
InstancesUpTo(max_prec) ==
    { ALWABPInstance(0, 0, <<>>, <<>>) } \cup
    UNION { { ALWABPInstance(n, m, TimeMatrix(n, m, c), l) :
                c \in IncapSets(n, m), l \in PrecListsUpTo(n, max_prec) }
            : n \in 1..MaxTasks, m \in 1..MaxWorkers }

Instances == InstancesUpTo(MaxPrec)

\* ---------------------------------------------------------------- solution
\* a bug __init__ could have: a new solution counts as feasible with cycle time 0
ALWABPSolutionFeasible(t, w) ==
    [task_station_assignment |-> t, worker_station_assignment |-> w,
     is_feasible |-> TRUE, cycle_time |-> 0, station_times |-> <<>>]

\* ALWABPSolution.__init__
ALWABPSolution(t, w) ==
    [task_station_assignment |-> t, worker_station_assignment |-> w,
     is_feasible |-> FALSE, cycle_time |-> INF, station_times |-> <<>>]

Permutations0(m) ==
    { f \in [Range0(m) -> Range0(m)] : \A a, b \in Range0(m) : f[a] = f[b] => a = b }

\* a bug evaluate() could have: total = t in place of total += t
SumTimesOverwrite(row, tasks, acc) ==
    IF tasks = {} THEN acc
    ELSE row[CHOOSE x \in tasks : \A y \in tasks : y <= x]

RECURSIVE SumTimes(_, _, _)
\* total += t for the tasks of `tasks` (a set of task indices), in increasing index
SumTimes(row, tasks, acc) ==
    IF tasks = {} THEN acc
    ELSE LET i == CHOOSE x \in tasks : \A y \in tasks : x <= y
         IN  SumTimes(row, tasks \ {i}, acc + row[i])

RECURSIVE MaxOf(_, _, _)
\* max(station_times) if station_times else 0.0
MaxOf(st, s, m) ==
    IF s >= m THEN 0
    ELSE LET rest == MaxOf(st, s + 1, m)
         IN  IF st[s] >= rest THEN st[s] ELSE rest

\* the infeasible outcome of evaluate()
Infeasible(I, sol) ==
    [sol EXCEPT !.is_feasible = FALSE, !.cycle_time = INF,
                !.station_times = [s \in Range0(I.num_workers) |-> INF]]

\* a bug the precedence test could have: a predecessor on the same station refused
violatesStrict(si, sj) == si = -1 \/ sj = -1 \/ si >= sj

\* if si == -1 or sj == -1 or si > sj
violates(si, sj) == si = -1 \/ sj = -1 \/ si > sj

\* a bug evaluate() could have: the totals start from the cached station_times
\* in place of zeros
staleTimes(I, sol) ==
    IF sol.is_feasible THEN sol.station_times
    ELSE [s \in Range0(I.num_workers) |-> 0]

\* station_times = [0.0] * m
initialTimes(I, sol) == [s \in Range0(I.num_workers) |-> 0]

\* ALWABPSolution.evaluate
evaluate(I, sol) ==
    LET n == I.num_tasks
        m == I.num_workers
        t == sol.task_station_assignment
        w == sol.worker_station_assignment
        tasks_in_station == [s \in Range0(m) |-> { i \in Range0(n) : t[i] = s }]
    IN  IF \E i \in Range0(n) : t[i] < 0 \/ t[i] >= m
        THEN Infeasible(I, sol)
        ELSE IF \E p \in 1..Len(I.precedences) :
                    violates(t[I.precedences[p][1] - 1], t[I.precedences[p][2] - 1])
        THEN Infeasible(I, sol)
        ELSE IF \E s \in Range0(m) : \E i \in tasks_in_station[s] :
                    I.task_times[w[s]][i] >= INF
        THEN Infeasible(I, sol)
        ELSE LET station_times ==
                    [s \in Range0(m) |-> SumTimes(I.task_times[w[s]], tasks_in_station[s],
                                                  initialTimes(I, sol)[s])]
             IN  [sol EXCEPT !.is_feasible = TRUE,
                             !.station_times = station_times,
                             !.cycle_time = MaxOf(station_times, 0, m)]

\* a bug the comparison could have: a tie counted as better
LtOrEqual(a, b) ==
    IF a.is_feasible # b.is_feasible THEN a.is_feasible
    ELSE a.cycle_time <= b.cycle_time

\* ALWABPSolution.__lt__
Lt(a, b) ==
    IF a.is_feasible # b.is_feasible THEN a.is_feasible
    ELSE a.cycle_time < b.cycle_time

\* ------------------------------------------------------- initial solution
\* instance.successors[i1] for a 1-based task i1: the list of its successors, in
\* the order of the precedence list
RECURSIVE successorsFrom(_, _, _)
successorsFrom(I, i1, p) ==
    IF p > Len(I.precedences) THEN <<>>
    ELSE IF I.precedences[p][1] = i1
         THEN <<I.precedences[p][2]>> \o successorsFrom(I, i1, p + 1)
         ELSE successorsFrom(I, i1, p + 1)

successors(I, i1) == successorsFrom(I, i1, 1)

RECURSIVE RangeList(_, _)
\* list(range(a, b))
RangeList(a, b) == IF a >= b THEN <<>> ELSE <<a>> \o RangeList(a + 1, b)

RECURSIVE releaseSuccessors(_, _, _, _)
\* the for-loop over instance.successors[i + 1] of Kahn's algorithm; st is
\* [queue, in_degree]
releaseSuccessors(succ, pos, queue, in_degree) ==
    IF pos > Len(succ) THEN [queue |-> queue, in_degree |-> in_degree]
    ELSE LET j == succ[pos] - 1
             d == in_degree[j] - 1
         IN  releaseSuccessors(succ, pos + 1,
                               IF d = 0 THEN Append(queue, j) ELSE queue,
                               [in_degree EXCEPT ![j] = d])

RECURSIVE kahnLoopLifo(_, _, _, _)
\* a bug the generator could have: queue.pop() in place of queue.pop(0)
kahnLoopLifo(I, queue, topo, in_degree) ==
    IF queue = <<>> THEN topo
    ELSE LET i == queue[Len(queue)]
             st == releaseSuccessors(successors(I, i + 1), 1,
                                     SubSeq(queue, 1, Len(queue) - 1), in_degree)
         IN  kahnLoopLifo(I, st.queue, Append(topo, i), st.in_degree)

RECURSIVE kahnLoop(_, _, _, _)
\* while queue: i = queue.pop(0); topo.append(i); ...
kahnLoop(I, queue, topo, in_degree) ==
    IF queue = <<>> THEN topo
    ELSE LET i == Head(queue)
             st == releaseSuccessors(successors(I, i + 1), 1, Tail(queue), in_degree)
         IN  kahnLoop(I, st.queue, Append(topo, i), st.in_degree)

\* the topological order computed by generate_initial_solution
topoOrder(I) ==
    LET n == I.num_tasks
        in_degree == [i \in Range0(n) |-> Cardinality(DOMAIN predecessors(I, i + 1))]
        queue == SelectSeq(RangeList(0, n), LAMBDA i : in_degree[i] = 0)
    IN  kahnLoop(I, queue, <<>>, in_degree)

\* a bug the greedy scan could have: the predecessors are not looked at
stationOkAnywhere(I, workers, t, i, s) == I.task_times[workers[s]][i] < INF

\* the stations the greedy scan may give task i: a capable worker, and no
\* predecessor on a later station
stationOk(I, workers, t, i, s) ==
    /\ I.task_times[workers[s]][i] < INF
    /\ \A p \in DOMAIN predecessors(I, i + 1) : ~(t[predecessors(I, i + 1)[p] - 1] > s)

RECURSIVE greedyLoopLastFit(_, _, _, _, _)
\* a bug the greedy scan could have: the last station that fits in place of the first
greedyLoopLastFit(I, workers, topo, pos, t) ==
    IF pos > Len(topo) THEN [alocado |-> TRUE, t |-> t]
    ELSE LET i == topo[pos]
             ok == { s \in Range0(I.num_workers) : stationOk(I, workers, t, i, s) }
         IN  IF ok = {} THEN [alocado |-> FALSE, t |-> t]
             ELSE LET s == CHOOSE x \in ok : \A y \in ok : y <= x
                  IN  greedyLoopLastFit(I, workers, topo, pos + 1, [t EXCEPT ![i] = s])

RECURSIVE greedyLoop(_, _, _, _, _)
\* for i in topo: ...; the result is the task array, or <<>> when a task could not
\* be allocated
greedyLoop(I, workers, topo, pos, t) ==
    IF pos > Len(topo) THEN [alocado |-> TRUE, t |-> t]
    ELSE LET i == topo[pos]
             ok == { s \in Range0(I.num_workers) : stationOk(I, workers, t, i, s) }
         IN  IF ok = {} THEN [alocado |-> FALSE, t |-> t]
             ELSE LET s == CHOOSE x \in ok : \A y \in ok : x <= y
                  IN  greedyLoop(I, workers, topo, pos + 1, [t EXCEPT ![i] = s])

\* a bug the generator could have: the length of the topological order is not
\* checked, and the tasks Kahn's algorithm ordered are placed
generate_initial_solutionUnchecked(I, workers) ==
    evaluate(I, ALWABPSolution(
        greedyLoop(I, workers, topoOrder(I), 1, [i \in Range0(I.num_tasks) |-> -1]).t, workers))

\* a bug the generator could have (or a different design): the stations given
\* before the task that could not be placed are kept
generate_initial_solutionPartial(I, workers) ==
    IF Len(topoOrder(I)) # I.num_tasks
    THEN ALWABPSolution([i \in Range0(I.num_tasks) |-> -1], workers)
    ELSE IF ~greedyLoop(I, workers, topoOrder(I), 1, [i \in Range0(I.num_tasks) |-> -1]).alocado
    THEN ALWABPSolution(
            greedyLoop(I, workers, topoOrder(I), 1, [i \in Range0(I.num_tasks) |-> -1]).t, workers)
    ELSE evaluate(I, ALWABPSolution(
            greedyLoop(I, workers, topoOrder(I), 1, [i \in Range0(I.num_tasks) |-> -1]).t, workers))

\* generate_initial_solution, for the worker permutation random.shuffle produced
generate_initial_solution(I, workers) ==
    LET n == I.num_tasks
        topo == topoOrder(I)
        unassigned == [i \in Range0(n) |-> -1]
    IN  IF Len(topo) # n THEN ALWABPSolution(unassigned, workers)
        ELSE LET g == greedyLoop(I, workers, topo, 1, unassigned)
             IN  IF ~g.alocado THEN ALWABPSolution(unassigned, workers)
                 ELSE evaluate(I, ALWABPSolution(g.t, workers))

\* ------------------------------------------------------------ feasibility
\* check_precedence_feasibility
check_precedence_feasibility(I, t) ==
    IF \E i \in Range0(I.num_tasks) : t[i] < 0 \/ t[i] >= I.num_workers THEN FALSE
    ELSE \A p \in 1..Len(I.precedences) :
            ~violates(t[I.precedences[p][1] - 1], t[I.precedences[p][2] - 1])

\* a Python list index: negative indices count from the end
PyInRange(len, idx) == (-len) <= idx /\ idx < len
PyIndex(len, idx) == IF idx < 0 THEN idx + len ELSE idx

\* ---------------------------------------------------------------- shaking
\* a bug an exchange could have: the first entry is overwritten before it is read
swapOverwrites(f, a, b) == [f EXCEPT ![a] = f[b], ![b] = f[b]]

\* x[a], x[b] = x[b], x[a]
swap(f, a, b) == [f EXCEPT ![a] = f[b], ![b] = f[a]]

Min(a, b) == IF a <= b THEN a ELSE b

RECURSIVE applyMoves(_, _, _)
\* new_t[i] = s_new for each drawn (i, s_new), in the order drawn
applyMoves(t, moves, pos) ==
    IF pos > Len(moves) THEN t
    ELSE applyMoves([t EXCEPT ![moves[pos][1]] = moves[pos][2]], moves, pos + 1)

\* the draws of num_moves times (random.randrange(n), random.randrange(m))
MoveLists(n, m, num_moves) == [1..num_moves -> Range0(n) \X Range0(m)]

\* a bug shaking could have: two independent draws, which may coincide
Sample2Independent(len) == Range0(len) \X Range0(len)

\* random.sample(range(len), 2)
Sample2(len) == { p \in Range0(len) \X Range0(len) : p[1] # p[2] }

\* a bug shaking could have: three reassignments for k = 3 as for k = 2
numMovesAlike(kk, n) == Min(3, n)

\* num_moves = min(3, n) for k = 2, min(2, n) for k = 3
numMoves(kk, n) == IF kk = 2 THEN Min(3, n) ELSE Min(2, n)

\* the candidates one attempt of shaking(solution, k) can build from fresh copies
\* of the solution's arrays, one per outcome of the random draws
candidates(I, sol, kk) ==
    LET n == I.num_tasks
        m == I.num_workers
        base_t == sol.task_station_assignment
        base_w == sol.worker_station_assignment
    IN  IF kk = 1 /\ n >= 2
        THEN { [new_t |-> swap(base_t, p[1], p[2]), new_w |-> base_w] : p \in Sample2(n) }
        ELSE IF kk = 2 /\ n > 0
        THEN { [new_t |-> applyMoves(base_t, mv, 1), new_w |-> base_w] :
                    mv \in MoveLists(n, m, numMoves(kk, n)) }
        ELSE IF kk = 3 /\ m >= 2
        THEN { [new_t |-> applyMoves(base_t, c[2], 1), new_w |-> swap(base_w, c[1][1], c[1][2])] :
                    c \in Sample2(m) \X MoveLists(n, m, numMoves(kk, n)) }
        ELSE IF n > 0
        THEN { [new_t |-> [base_t EXCEPT ![i] = (base_t[i] + 1) % m], new_w |-> base_w] :
                    i \in Range0(n) }
        ELSE { [new_t |-> base_t, new_w |-> base_w] }

\* the quick incapacity check of shaking: "ok", "incapable", or "raise" when
\* new_w[s] is an index error
quickCapacity(I, c) ==
    LET n == I.num_tasks
        m == I.num_workers
        stop == { i \in Range0(n) :
                    \/ ~PyInRange(m, c.new_t[i])
                    \/ I.task_times[c.new_w[PyIndex(m, c.new_t[i])]][i] >= INF }
    IN  IF stop = {} THEN "ok"
        ELSE LET i == CHOOSE x \in stop : \A y \in stop : x <= y
             IN  IF ~PyInRange(m, c.new_t[i]) THEN "raise" ELSE "incapable"

\* a bug shaking could have: the candidate is returned without any check
attemptOutcomeUnchecked(I, c) == "return"

\* what one attempt of shaking does with candidate c: "raise", "continue" (the
\* candidate is rejected) or "return" (it is returned)
attemptOutcome(I, c) ==
    LET cap == quickCapacity(I, c)
    IN  IF cap = "raise" THEN "raise"
        ELSE IF cap = "incapable" THEN "continue"
        ELSE IF ~check_precedence_feasibility(I, c.new_t) THEN "continue"
        ELSE IF evaluate(I, ALWABPSolution(c.new_t, c.new_w)).is_feasible THEN "return"
        ELSE "continue"

\* ----------------------------------------------------------- local search
\* the result of a search over the heap h: the heap after it, the reference it
\* returns, and whether it raised
Result(h, r, raised) == [heap |-> h, ref |-> r, raised |-> raised]

\* max(range(m), key=lambda s: station_times[s]): the first station of maximal time
worstStation(station_times, m) ==
    CHOOSE s \in Range0(m) :
        /\ \A x \in Range0(m) : station_times[x] <= station_times[s]
        /\ \A x \in Range0(m) : x < s => station_times[x] < station_times[s]

\* the first element of a set of pairs in scan order (outer index, then inner)
FirstPair(S) == CHOOSE p \in S : \A q \in S : p = q \/ PairLt(p, q)

\* the neighbour local_search_task_reassignment builds for moving task i to s_new
taskNeighbor(I, cur, i, s_new) ==
    evaluate(I, ALWABPSolution([cur.task_station_assignment EXCEPT ![i] = s_new],
                               cur.worker_station_assignment))

\* a bug the searches could have: a neighbour that is as good is accepted
acceptsNotWorse(s_neighbor, cur) == s_neighbor.is_feasible /\ ~Lt(cur, s_neighbor)

\* if s_neighbor.is_feasible and s_neighbor < s_current
accepts(s_neighbor, cur) == s_neighbor.is_feasible /\ Lt(s_neighbor, cur)

\* the moves (i, s_new) of a task of worst_station that the scan of
\* local_search_task_reassignment would accept
improvingMoves(I, cur, worst_station) ==
    { mv \in Range0(I.num_tasks) \X Range0(I.num_workers) :
        /\ cur.task_station_assignment[mv[1]] = worst_station
        /\ mv[2] # cur.task_station_assignment[mv[1]]
        /\ check_precedence_feasibility(I, [cur.task_station_assignment EXCEPT ![mv[1]] = mv[2]])
        /\ I.task_times[cur.worker_station_assignment[mv[2]]][mv[1]] < INF
        /\ accepts(taskNeighbor(I, cur, mv[1], mv[2]), cur) }

\* whether the scans of the local searches start: the solution is feasible and no
\* station time is infinite
scans(I, cur) ==
    /\ cur.is_feasible
    /\ ~\E s \in Range0(I.num_workers) : cur.station_times[s] >= INF

RECURSIVE local_search_task_reassignment(_, _, _)
\* one pass of `while True` on the object r, already evaluated, with the moves it
\* can accept
taskPass(I, h1, r, improving) ==
    IF improving = {} THEN Result(h1, r, FALSE)
    ELSE local_search_task_reassignment(I,
            Append(h1, taskNeighbor(I, h1[r], FirstPair(improving)[1], FirstPair(improving)[2])),
            Len(h1) + 1)

taskScan(I, h1, r) ==
    IF ~scans(I, h1[r]) THEN Result(h1, r, FALSE)
    ELSE IF I.num_workers = 0 THEN Result(h1, r, TRUE)
    ELSE taskPass(I, h1, r,
                  improvingMoves(I, h1[r], worstStation(h1[r].station_times, I.num_workers)))

local_search_task_reassignment(I, h, r) ==
    taskScan(I, [h EXCEPT ![r] = evaluate(I, h[r])], r)

\* the neighbour local_search_worker_swap builds for exchanging the workers of
\* worst_station and s2
swapNeighbor(I, cur, worst_station, s2) ==
    evaluate(I, ALWABPSolution(cur.task_station_assignment,
                               swap(cur.worker_station_assignment, worst_station, s2)))

\* a bug local_search_worker_swap could have: no check before the evaluation
swapCapableAlways(I, t, new_w) == TRUE

\* the quick incapacity check of local_search_worker_swap over all tasks
swapCapable(I, t, new_w) ==
    \A i \in Range0(I.num_tasks) : I.task_times[new_w[t[i]]][i] < INF

\* the stations s2 whose exchange with worst_station the scan would accept
improvingSwaps(I, cur, worst_station) ==
    { s2 \in Range0(I.num_workers) :
        /\ s2 # worst_station
        /\ swapCapable(I, cur.task_station_assignment,
                       swap(cur.worker_station_assignment, worst_station, s2))
        /\ accepts(swapNeighbor(I, cur, worst_station, s2), cur) }

MinOf(S) == CHOOSE x \in S : \A y \in S : x <= y

RECURSIVE local_search_worker_swap(_, _, _)
swapPass(I, h1, r, worst_station, improving) ==
    IF improving = {} THEN Result(h1, r, FALSE)
    ELSE local_search_worker_swap(I,
            Append(h1, swapNeighbor(I, h1[r], worst_station, MinOf(improving))),
            Len(h1) + 1)

swapScan(I, h1, r, worst_station) ==
    swapPass(I, h1, r, worst_station, improvingSwaps(I, h1[r], worst_station))

swapStart(I, h1, r) ==
    IF ~scans(I, h1[r]) THEN Result(h1, r, FALSE)
    ELSE IF I.num_workers = 0 THEN Result(h1, r, TRUE)
    ELSE swapScan(I, h1, r, worstStation(h1[r].station_times, I.num_workers))

local_search_worker_swap(I, h, r) ==
    swapStart(I, [h EXCEPT ![r] = evaluate(I, h[r])], r)

RECURSIVE vndLoop(_, _, _, _)
\* if s_prime < s_current: s_current = s_prime; l = 1; else: l += 1
vndCompare(I, s_cur, l, res) ==
    IF res.raised THEN res
    ELSE IF Lt(res.heap[res.ref], res.heap[s_cur])
         THEN vndLoop(I, res.heap, res.ref, 1)
         ELSE vndLoop(I, res.heap, s_cur, l + 1)

\* while l <= l_max: ...
vndLoop(I, h, s_cur, l) ==
    IF l > 2 THEN Result(h, s_cur, FALSE)
    ELSE IF l = 1 THEN vndCompare(I, s_cur, l, local_search_task_reassignment(I, h, s_cur))
    ELSE vndCompare(I, s_cur, l, local_search_worker_swap(I, h, s_cur))

\* vnd(solution), for the object r of heap h
vnd(I, h, r) == vndLoop(I, h, r, 1)

\* ------------------------------------------ evaluation alone
\* any assignment arrays a caller may construct a solution from: stations from
\* -1 (unassigned) to num_workers (one past the last), workers a permutation
TaskArrays(I) == [Range0(I.num_tasks) -> (-1) .. I.num_workers]

InitEval ==
    /\ inst \in Instances
    /\ \E t1 \in TaskArrays(inst) : \E w1 \in Permutations0(inst.num_workers) :
          heap = << ALWABPSolution(t1, w1) >>
    /\ evals = 0 /\ vnd_l = 0
    /\ pc = "constructed"
    /\ num_starts = NumStarts /\ max_iter = 0 /\ k_max = 0 /\ time_limit = FALSE
    /\ best = 0 /\ starts = 0
    /\ s_initial = 0 /\ s_best = 0 /\ s_current = 0 /\ s_prime = 0 /\ s_prime_prime = 0
    /\ k = 0 /\ iteration = 0 /\ attempt = 0
    /\ produced = <<>>
    /\ twin = <<>>
    /\ stdin = <<>> /\ parsed = <<>> /\ lists = <<>> /\ search = <<>>

\* one call of evaluate() on the solution
EvaluateStep ==
    /\ pc \in {"constructed", "evaluated"}
    /\ evals < MaxEvals
    /\ heap' = [heap EXCEPT ![1] = evaluate(inst, heap[1])]
    /\ evals' = evals + 1
    /\ pc' = "evaluated"
    /\ UNCHANGED <<stdin, parsed, inst>>
    /\ UNCHANGED vnsVars

NextEval == EvaluateStep

SpecEval == InitEval /\ [][NextEval]_vars

\* ------------------------------------------- properties of evaluate() alone
\* the stations and tasks of the instance
Stations == Range0(inst.num_workers)
Tasks == Range0(inst.num_tasks)

RECURSIVE StationWork(_, _, _, _)
\* the time worker wk needs for the tasks below index i that sol puts on station s
StationWork(sol, s, wk, i) ==
    IF i = 0 THEN 0
    ELSE StationWork(sol, s, wk, i - 1)
         + (IF sol.task_station_assignment[i - 1] = s THEN inst.task_times[wk][i - 1] ELSE 0)

\* station_times and cycle_time of sol are the sums and the maximum the data model defines
TimesAreSums(sol) ==
    /\ DOMAIN sol.station_times = Stations
    /\ \A s \in Stations :
          sol.station_times[s] =
              StationWork(sol, s, sol.worker_station_assignment[s], inst.num_tasks)
    /\ \A s \in Stations : sol.station_times[s] <= sol.cycle_time
    /\ IF Stations = {} THEN sol.cycle_time = 0
       ELSE \E s \in Stations : sol.station_times[s] = sol.cycle_time

\* C1: on every solution evaluate() found feasible, station_times[s] is the sum of
\* task_times[worker_station[s]][i] over exactly the tasks i with task_station[i] = s,
\* and cycle_time is the maximum of station_times (0 without stations).
C1_FeasibleTimesAreSums ==
    (pc = "evaluated" /\ heap[1].is_feasible) => TimesAreSums(heap[1])

\* a feasible evaluated solution with two tasks on one station and unequal station times
C1_Witness ==
    /\ pc = "evaluated"
    /\ heap[1].is_feasible
    /\ \E i, j \in Tasks : i # j /\ heap[1].task_station_assignment[i] = heap[1].task_station_assignment[j]
    /\ \E s \in Stations : 0 < heap[1].station_times[s] /\ heap[1].station_times[s] < heap[1].cycle_time

\* (a) every station index is in [0, num_workers)
IndicesValid(sol) ==
    \A i \in Tasks : 0 <= sol.task_station_assignment[i] /\ sol.task_station_assignment[i] < inst.num_workers

\* (b) every precedence pair (i, j) has task_station[i] <= task_station[j]
PrecedencesKept(sol) ==
    \A p \in 1..Len(inst.precedences) :
        sol.task_station_assignment[inst.precedences[p][1] - 1]
            <= sol.task_station_assignment[inst.precedences[p][2] - 1]

\* (c) no task sits on a station whose worker is incapable of it
WorkersCapable(sol) ==
    \A i \in Tasks : \A s \in Stations :
        sol.task_station_assignment[i] = s
            => inst.task_times[sol.worker_station_assignment[s]][i] # INF

\* C2: evaluate() sets is_feasible exactly when the station indices are valid, the
\* precedences are kept (same station allowed) and every worker is capable of its
\* tasks; otherwise cycle_time and all num_workers station_times are infinite.
C2_FeasibleIff ==
    pc = "evaluated" =>
        /\ heap[1].is_feasible <=>
              (IndicesValid(heap[1]) /\ PrecedencesKept(heap[1]) /\ WorkersCapable(heap[1]))
        /\ ~heap[1].is_feasible =>
              /\ heap[1].cycle_time = INF
              /\ heap[1].station_times = [s \in Stations |-> INF]

\* a feasible solution with a precedence pair kept on one station
C2_Witness ==
    /\ pc = "evaluated"
    /\ heap[1].is_feasible
    /\ \E p \in 1..Len(inst.precedences) :
          /\ inst.precedences[p][1] # inst.precedences[p][2]
          /\ heap[1].task_station_assignment[inst.precedences[p][1] - 1]
                = heap[1].task_station_assignment[inst.precedences[p][2] - 1]
    /\ \E w \in Stations, i \in Tasks : inst.task_times[w][i] = INF

\* C3: a second evaluate() leaves is_feasible, cycle_time and station_times as the
\* first left them, and no call changes task_station, worker_station or the instance.
C3_EvaluateIdempotent ==
    [][ pc' = "evaluated" =>
          /\ inst' = inst
          /\ heap'[1].task_station_assignment = heap[1].task_station_assignment
          /\ heap'[1].worker_station_assignment = heap[1].worker_station_assignment
          /\ pc = "evaluated" => heap'[1] = heap[1] ]_vars

\* a feasible solution of two stations with work, evaluated twice
C3_Witness ==
    /\ pc = "evaluated"
    /\ evals = 2
    /\ heap[1].is_feasible
    /\ \E s1, s2 \in Stations : s1 # s2 /\ heap[1].station_times[s1] > 0 /\ heap[1].station_times[s2] > 0

\* ------------------------------------------------------------- the driver
RECURSIVE liveRefs(_, _, _)
\* the objects some name still refers to, in the order of the names
liveRefs(refs, pos, acc) ==
    IF pos > Len(refs) THEN acc
    ELSE liveRefs(refs, pos + 1,
                  IF refs[pos] = 0 \/ \E j \in 1..Len(acc) : acc[j] = refs[pos]
                  THEN acc ELSE Append(acc, refs[pos]))

renumber(live, r) == IF r = 0 THEN 0 ELSE CHOOSE j \in 1..Len(live) : live[j] = r

\* the next values of the heap and of the names: the objects no name refers to
\* any more are dropped and the references renumbered
Store(h, r_best, r_initial, r_s_best, r_current, r_prime, r_prime_prime) ==
    LET live == liveRefs(<<r_initial, r_s_best, r_current, r_best, r_prime, r_prime_prime>>,
                         1, <<>>)
    IN  /\ heap' = [j \in 1..Len(live) |-> h[live[j]]]
        /\ best' = renumber(live, r_best)
        /\ s_initial' = renumber(live, r_initial)
        /\ s_best' = renumber(live, r_s_best)
        /\ s_current' = renumber(live, r_current)
        /\ s_prime' = renumber(live, r_prime)
        /\ s_prime_prime' = renumber(live, r_prime_prime)

Init ==
    /\ inst \in Instances
    /\ num_starts = NumStarts
    /\ max_iter \in 0..MaxIter
    /\ k_max \in 0..MaxKMax
    /\ time_limit \in BOOLEAN
    /\ heap = <<>>
    /\ best = 0 /\ starts = 0
    /\ s_initial = 0 /\ s_best = 0 /\ s_current = 0 /\ s_prime = 0 /\ s_prime_prime = 0
    /\ k = 0 /\ iteration = 0 /\ attempt = 0
    /\ pc = "multi"
    /\ evals = 0 /\ vnd_l = 0
    /\ produced = <<>>
    /\ twin = <<>>
    /\ stdin = <<>> /\ parsed = <<>> /\ lists = <<>> /\ search = <<>>

\* one pass of the loop of generate_initial_solution_multi, for the permutation
\* random.shuffle produced
GenerateStartWith(workers) ==
    /\ LET sol == generate_initial_solution(inst, workers)
           h == Append(heap, sol)
       IN  IF best = 0 \/ Lt(sol, heap[best])
           THEN Store(h, Len(h), 0, 0, 0, 0, 0)
           ELSE Store(h, best, 0, 0, 0, 0, 0)
    /\ starts' = starts + 1
    /\ UNCHANGED <<search, lists, stdin, parsed, inst, vnd_l, num_starts, max_iter, k_max, time_limit, k, iteration, attempt, pc, evals, produced>>

\* generate_initial_solution_multi: one pass of its loop
GenerateStart ==
    /\ pc = "multi"
    /\ starts < num_starts
    /\ \E workers \in Permutations0(inst.num_workers) : GenerateStartWith(workers)
    /\ UNCHANGED twin

\* vns: s_initial = generate_initial_solution_multi(...); s_best = s_current = s_initial
VnsStartEffect ==
    /\ pc = "multi"
    /\ starts = num_starts
    /\ Store(heap, 0, best, best, best, 0, 0)
    /\ produced' = heap[best]
    /\ iteration' = 0
    /\ pc' = "outer"
    /\ UNCHANGED <<search, lists, stdin, parsed, inst, vnd_l, num_starts, max_iter, k_max, time_limit, starts, k, attempt, evals>>

VnsStart == VnsStartEffect /\ UNCHANGED twin

\* a bug the driver could have: the clock decides even when no limit is configured
ElapsedAnyway == BOOLEAN

\* whether a time check finds the limit reached: never without a limit, and up to
\* the clock with one
Elapsed == IF time_limit THEN BOOLEAN ELSE {FALSE}

\* while iteration < max_iter: the time check, k = 1
OuterStepEffect ==
    /\ pc = "outer"
    /\ \E over \in Elapsed :
          IF iteration < max_iter /\ ~over
          THEN k' = 1 /\ pc' = "inner"
          ELSE k' = k /\ pc' = "done"
    /\ UNCHANGED <<search, lists, stdin, parsed, inst, vnd_l, num_starts, max_iter, k_max, time_limit, heap, best, starts, s_initial, s_best,
                   s_current, s_prime, s_prime_prime, iteration, attempt, evals, produced>>

OuterStep == OuterStepEffect /\ UNCHANGED twin

\* a bug the driver could have: the time limit is also polled when the inner loop
\* exits, returning before iteration += 1
InnerStepPollsAtExit ==
    /\ pc = "inner"
    /\ \E over \in Elapsed :
          IF over THEN pc' = "done" /\ UNCHANGED <<iteration, attempt>>
          ELSE IF k <= k_max THEN pc' = "shake" /\ attempt' = 0 /\ UNCHANGED iteration
          ELSE iteration' = iteration + 1 /\ pc' = "outer" /\ UNCHANGED attempt
    /\ UNCHANGED <<search, lists, stdin, parsed, inst, twin, vnd_l, num_starts, max_iter, k_max, time_limit, heap, best, starts, s_initial, s_best,
                   s_current, s_prime, s_prime_prime, k, evals, produced>>

\* while k <= k_max: the time check; after the loop, iteration += 1
InnerStepEffect ==
    /\ pc = "inner"
    /\ \E over \in Elapsed :
          IF k <= k_max
          THEN IF over THEN pc' = "done" /\ UNCHANGED <<iteration, attempt>>
               ELSE pc' = "shake" /\ attempt' = 0 /\ UNCHANGED iteration
          ELSE ~over /\ iteration' = iteration + 1 /\ pc' = "outer" /\ UNCHANGED attempt
    /\ UNCHANGED <<search, lists, stdin, parsed, inst, vnd_l, num_starts, max_iter, k_max, time_limit, heap, best, starts, s_initial, s_best,
                   s_current, s_prime, s_prime_prime, k, evals, produced>>

InnerStep == InnerStepEffect /\ UNCHANGED twin

\* one pass of the loop of shaking(s_current, k), for the candidate c the random
\* draws produced
ShakeAttemptWith(c) ==
    /\ LET outcome == attemptOutcome(inst, c)
           h == Append(heap, evaluate(inst, ALWABPSolution(c.new_t, c.new_w)))
       IN  /\ attempt' = attempt + 1
           /\ IF outcome = "return"
              THEN Store(h, best, s_initial, s_best, s_current, Len(h), 0) /\ pc' = "vnd"
              ELSE /\ UNCHANGED <<heap, best, s_initial, s_best, s_current, s_prime,
                                  s_prime_prime>>
                   /\ pc' = IF outcome = "raise" THEN "raised" ELSE "shake"
    /\ UNCHANGED <<search, lists, stdin, parsed, inst, vnd_l, num_starts, max_iter, k_max, time_limit, starts, k, iteration, evals, produced>>

\* shaking(s_current, k): one pass of its loop over the attempts
ShakeAttempt ==
    /\ pc = "shake"
    /\ attempt < ShakeAttempts
    /\ \E c \in candidates(inst, heap[s_current], k) : ShakeAttemptWith(c)
    /\ UNCHANGED twin

\* a bug shaking could have: it fails when no attempt returned a neighbour
ShakeFallbackRaises ==
    /\ pc = "shake"
    /\ attempt = ShakeAttempts
    /\ pc' = "raised"
    /\ UNCHANGED <<search, lists, stdin, parsed, inst, twin, vnd_l, num_starts, max_iter, k_max, time_limit, heap, best, starts, s_initial, s_best,
                   s_current, s_prime, s_prime_prime, k, iteration, attempt, evals, produced>>

\* shaking: no attempt returned a neighbour, return solution
ShakeFallbackEffect ==
    /\ pc = "shake"
    /\ attempt = ShakeAttempts
    /\ s_prime' = s_current
    /\ pc' = "vnd"
    /\ UNCHANGED <<search, lists, stdin, parsed, inst, vnd_l, num_starts, max_iter, k_max, time_limit, heap, best, starts, s_initial, s_best,
                   s_current, s_prime_prime, k, iteration, attempt, evals, produced>>

ShakeFallback == ShakeFallbackEffect /\ UNCHANGED twin

\* s_prime_prime = vnd(s_prime)
VndReturn(res) ==
    /\ Store(res.heap, best, s_initial, s_best, s_current, s_prime,
             IF res.raised THEN 0 ELSE res.ref)
    /\ pc' = IF res.raised THEN "raised" ELSE "accept"

VndStepEffect ==
    /\ pc = "vnd"
    /\ VndReturn(vnd(inst, heap, s_prime))
    /\ UNCHANGED <<search, lists, stdin, parsed, inst, vnd_l, num_starts, max_iter, k_max, time_limit, starts, k, iteration, attempt, evals,
                   produced>>

VndStep == VndStepEffect /\ UNCHANGED twin

\* a bug the driver could have: k is not reset after an improvement
AcceptStepNoReset ==
    /\ pc = "accept"
    /\ IF Lt(heap[s_prime_prime], heap[s_current])
       THEN Store(heap, best, s_initial,
                  IF Lt(heap[s_prime_prime], heap[s_best]) THEN s_prime_prime ELSE s_best,
                  s_prime_prime, 0, 0)
       ELSE Store(heap, best, s_initial, s_best, s_current, 0, 0)
    /\ k' = k + 1
    /\ pc' = "inner"
    /\ UNCHANGED <<search, lists, stdin, parsed, inst, twin, vnd_l, num_starts, max_iter, k_max, time_limit, starts, iteration, attempt, evals,
                   produced>>

\* a bug the driver could have: s_current also moves to a solution that is as good
AcceptStepSideways ==
    /\ pc = "accept"
    /\ IF ~Lt(heap[s_current], heap[s_prime_prime])
       THEN /\ Store(heap, best, s_initial,
                     IF Lt(heap[s_prime_prime], heap[s_best]) THEN s_prime_prime ELSE s_best,
                     s_prime_prime, 0, 0)
            /\ k' = IF Lt(heap[s_prime_prime], heap[s_current]) THEN 1 ELSE k + 1
       ELSE /\ Store(heap, best, s_initial, s_best, s_current, 0, 0)
            /\ k' = k + 1
    /\ pc' = "inner"
    /\ UNCHANGED <<search, lists, stdin, parsed, inst, twin, vnd_l, num_starts, max_iter, k_max, time_limit, starts, iteration, attempt, evals,
                   produced>>

\* a bug the driver could have: s_best is not updated when s_current improves
AcceptStepKeepBest ==
    /\ pc = "accept"
    /\ IF Lt(heap[s_prime_prime], heap[s_current])
       THEN /\ Store(heap, best, s_initial, s_best, s_prime_prime, 0, 0)
            /\ k' = 1
       ELSE /\ Store(heap, best, s_initial, s_best, s_current, 0, 0)
            /\ k' = k + 1
    /\ pc' = "inner"
    /\ UNCHANGED <<search, lists, stdin, parsed, inst, twin, vnd_l, num_starts, max_iter, k_max, time_limit, starts, iteration, attempt, evals,
                   produced>>

\* if s_prime_prime < s_current: ... else: k += 1
AcceptStepEffect ==
    /\ pc = "accept"
    /\ IF Lt(heap[s_prime_prime], heap[s_current])
       THEN /\ Store(heap, best, s_initial,
                     IF Lt(heap[s_prime_prime], heap[s_best]) THEN s_prime_prime ELSE s_best,
                     s_prime_prime, 0, 0)
            /\ k' = 1
       ELSE /\ Store(heap, best, s_initial, s_best, s_current, 0, 0)
            /\ k' = k + 1
    /\ pc' = "inner"
    /\ UNCHANGED <<search, lists, stdin, parsed, inst, vnd_l, num_starts, max_iter, k_max, time_limit, starts, iteration, attempt, evals,
                   produced>>

AcceptStep == AcceptStepEffect /\ UNCHANGED twin

Next ==
    \/ GenerateStart
    \/ VnsStart
    \/ OuterStep
    \/ InnerStep
    \/ ShakeAttempt
    \/ ShakeFallback
    \/ VndStep
    \/ AcceptStep

Spec == Init /\ [][Next]_vars

\* ------------------------------------------------ properties of the driver
Objects == 1..Len(heap)

\* a is strictly better than b, as the ordering contract states it
Better(a, b) ==
    \/ a.is_feasible /\ ~b.is_feasible
    \/ a.is_feasible = b.is_feasible /\ a.cycle_time < b.cycle_time

\* C4: a < b is a strict weak ordering of the solutions: irreflexive, transitive,
\* with transitive incomparability; a feasible solution is better than every
\* infeasible one, of two feasible ones the one of smaller cycle_time is better, and
\* equal feasibility and cycle_time order neither way.
C4_StrictWeakOrder ==
    \A a, b, c \in Objects :
        LET x == heap[a]
            y == heap[b]
            z == heap[c]
        IN  /\ ~Lt(x, x)
            /\ (Lt(x, y) /\ Lt(y, z)) => Lt(x, z)
            /\ (~Lt(x, y) /\ ~Lt(y, x) /\ ~Lt(y, z) /\ ~Lt(z, y)) => (~Lt(x, z) /\ ~Lt(z, x))
            /\ (x.is_feasible /\ ~y.is_feasible) => (Lt(x, y) /\ ~Lt(y, x))
            /\ (x.is_feasible /\ y.is_feasible /\ x.cycle_time < y.cycle_time) => Lt(x, y)
            /\ (x.is_feasible = y.is_feasible /\ x.cycle_time = y.cycle_time)
                  => (~Lt(x, y) /\ ~Lt(y, x))

\* three live solutions in a chain: two feasible ones of different cycle times and
\* an infeasible one, and two distinct objects that tie
C4_Witness ==
    /\ \E a, b, c \in Objects :
          /\ heap[a].is_feasible /\ heap[b].is_feasible /\ ~heap[c].is_feasible
          /\ Lt(heap[a], heap[b]) /\ Lt(heap[b], heap[c])
    /\ \E a, b \in Objects : a # b /\ ~Lt(heap[a], heap[b]) /\ ~Lt(heap[b], heap[a])

\* the solution is feasible by the data model's invariants
MeetsConstraints(sol) ==
    IndicesValid(sol) /\ PrecedencesKept(sol) /\ WorkersCapable(sol)

\* C5: what shaking returns is feasible or the input itself; for a feasible input it
\* is always feasible: no precedence pair violated, no task on an incapable worker.
C5_ShakingReturnsFeasible ==
    pc = "vnd" =>
        /\ s_prime = s_current \/ (heap[s_prime].is_feasible /\ MeetsConstraints(heap[s_prime]))
        /\ heap[s_current].is_feasible =>
              (heap[s_prime].is_feasible /\ MeetsConstraints(heap[s_prime]))

\* shaking with k = 3 returned a new neighbour of a feasible solution, on an instance
\* with a precedence pair and an incapacitated cell
C5_Witness ==
    /\ pc = "vnd"
    /\ k = 3
    /\ s_prime # s_current
    /\ heap[s_current].is_feasible
    /\ heap[s_prime].worker_station_assignment # heap[s_current].worker_station_assignment
    /\ Len(inst.precedences) > 0
    /\ \E w \in Stations, i \in Tasks : inst.task_times[w][i] = INF

\* C6: a call of shaking builds at most 10 candidates, never touches the arrays of
\* its input; when none passes the checks it returns the input itself, unchanged,
\* and it never raises.
C6_ShakingBoundedFallback ==
    [][ pc = "shake" =>
          /\ attempt' <= ShakeAttempts
          /\ pc' # "raised"
          /\ heap'[s_current'] = heap[s_current]
          /\ (pc' = "vnd" /\ attempt' = attempt) =>
                (attempt = ShakeAttempts /\ s_prime' = s_current' /\ heap' = heap) ]_vars

\* shaking of a feasible solution gave up after 10 rejected candidates
C6_Witness ==
    /\ pc = "vnd"
    /\ attempt = ShakeAttempts
    /\ s_prime = s_current
    /\ heap[s_current].is_feasible
    /\ inst.num_tasks >= 2

\* C7: an inner step with s'' = vnd(shaking(current, k)): when s'' is strictly better
\* than current, current becomes s'', k is reset to 1 and best becomes s'' if s'' is
\* strictly better than best; otherwise current and best stay and k grows by one.
\* Shaking is only invoked with 1 <= k <= k_max.
C7_AcceptanceRule ==
    /\ [][ pc = "accept" =>
             IF Better(heap[s_prime_prime], heap[s_current])
             THEN /\ heap'[s_current'] = heap[s_prime_prime]
                  /\ k' = 1
                  /\ heap'[s_best'] = IF Better(heap[s_prime_prime], heap[s_best])
                                      THEN heap[s_prime_prime] ELSE heap[s_best]
             ELSE /\ heap'[s_current'] = heap[s_current]
                  /\ heap'[s_best'] = heap[s_best]
                  /\ k' = k + 1 ]_vars
    /\ [](pc \in {"shake", "vnd", "accept"} => (1 <= k /\ k <= k_max))

\* the driver is back at the inner loop with k = 1 after having replaced current
C7_Witness ==
    /\ pc = "inner"
    /\ k = 1
    /\ s_current # s_initial
    /\ heap[s_initial].is_feasible

\* C8: best is never worse than the initial solution nor than current, and never
\* gets worse; with a feasible initial solution best is feasible with
\* cycle_time <= the initial one's.
C8_BestNeverWorse ==
    /\ [](s_best # 0 =>
            /\ ~Better(heap[s_initial], heap[s_best])
            /\ ~Better(heap[s_current], heap[s_best])
            /\ produced.is_feasible =>
                  (heap[s_best].is_feasible /\ heap[s_best].cycle_time <= produced.cycle_time))
    /\ [][ (s_best # 0 /\ s_best' # 0) =>
             (~Better(heap[s_best], heap'[s_best'])
              /\ heap'[s_best'].cycle_time <= heap[s_best].cycle_time) ]_vars

\* vns returned a best solution strictly better than a feasible initial solution
C8_Witness ==
    /\ pc = "done"
    /\ heap[s_initial].is_feasible
    /\ heap[s_best].cycle_time < heap[s_initial].cycle_time

\* C9: the initial solution vns returns is as the multi-start generator produced it:
\* arrays and cached is_feasible, cycle_time and station_times.
C9_InitialNeverMutated ==
    pc = "done" => heap[s_initial] = produced

\* the initial solution handed to the loop is a flagged-infeasible one
FlaggedInitial == s_initial # 0 /\ ~produced.is_feasible

\* C10 as stated: on a flagged-infeasible initial solution vns does not raise, no
\* shaking call yields a feasible neighbour and the best solution returned is
\* infeasible.
C10_FlaggedStaysInfeasible ==
    FlaggedInitial =>
        /\ pc # "raised"
        /\ pc = "vnd" => ~heap[s_prime].is_feasible
        /\ pc = "done" => ~heap[s_best].is_feasible

\* the move of shaking for kk gives every task of an unassigned solution a station
MoveAssignsAll(kk) ==
    \/ kk = 2 /\ inst.num_tasks <= 3
    \/ kk = 3 /\ inst.num_workers >= 2 /\ inst.num_tasks <= 2
    \/ inst.num_tasks = 1

\* C10 amended: on a flagged-infeasible initial solution vns does not raise and the
\* initial solution stays infeasible; shaking the flagged solution yields a feasible
\* neighbour only when the move for k assigns every task (k = 2 and n <= 3; k = 3,
\* m >= 2 and n <= 2; or n = 1), and the best solution returned is infeasible unless
\* some k <= k_max is such a move.
C10_FlaggedFeasibleOnlyBySmallMove ==
    FlaggedInitial =>
        /\ pc # "raised"
        /\ ~heap[s_initial].is_feasible
        /\ (pc = "vnd" /\ ~heap[s_current].is_feasible /\ heap[s_prime].is_feasible)
              => MoveAssignsAll(k)
        /\ (pc = "done" /\ heap[s_best].is_feasible)
              => /\ max_iter >= 1
                 /\ \E kk \in 1..k_max : MoveAssignsAll(kk)

\* vns returned a feasible best solution although the initial one was flagged
\* infeasible, on an instance of three tasks
C10_Witness ==
    /\ FlaggedInitial
    /\ pc = "done"
    /\ heap[s_best].is_feasible
    /\ inst.num_tasks = 3

\* ------------------------------------------------------ termination of vns
\* C11: with no time limit vns ends by returning, never by an exception, and it
\* returns only once the iteration counter equals max_iter; the counter starts at 0
\* and grows by exactly one each time the inner loop exits with k > k_max.
C11_ReturnsAtMaxIter ==
    ~time_limit =>
        /\ pc # "raised"
        /\ pc = "done" => iteration = max_iter
        /\ pc = "outer" => iteration <= max_iter
        /\ pc \in {"inner", "shake", "vnd", "accept"} => iteration < max_iter

\* ---------------------------------------------------------- the time limit
\* vns returns before the iteration cap
ReturnsEarly == pc' = "done" /\ (pc = "inner" \/ iteration < max_iter)

\* C12: vns returns early only with a time limit configured, only from the check at
\* the start of an outer iteration or at the start of an inner step with k <= k_max
\* (the limit is polled nowhere else); the return changes no solution, runs no
\* further shaking or vnd, and hands back the initial solution and a best solution
\* that neither the initial nor the current solution beats; nothing runs after it.
C12_TimeLimitReturnsBest ==
    /\ [][ReturnsEarly =>
             /\ time_limit
             /\ pc \in {"outer", "inner"}
             /\ pc = "inner" => k <= k_max
             /\ UNCHANGED <<heap, s_initial, s_best, s_current, iteration>>
             /\ ~Lt(heap[s_initial], heap[s_best])
             /\ ~Lt(heap[s_current], heap[s_best])]_vars
    /\ [][pc' = "done" => pc \in {"outer", "inner"}]_vars
    /\ [][pc # "done"]_vars

\* the time limit ended the run inside the inner loop, after an improvement
C12_Witness ==
    /\ pc = "done"
    /\ time_limit
    /\ iteration < max_iter
    /\ k >= 1
    /\ s_best # s_initial
    /\ Lt(heap[s_best], heap[s_initial])

\* ------------------------------------------- the initial solution alone
\* generate_initial_solution_multi(instance, num_starts) on its own: the heap keeps
\* every solution generated, in the order generated
InitGen ==
    /\ inst \in InstancesUpTo(MaxPrecGen)
    /\ num_starts \in 1..MaxStarts
    /\ heap = <<>>
    /\ best = 0 /\ starts = 0
    /\ pc = "generating"
    /\ max_iter = 0 /\ k_max = 0 /\ time_limit = FALSE
    /\ s_initial = 0 /\ s_best = 0 /\ s_current = 0 /\ s_prime = 0 /\ s_prime_prime = 0
    /\ k = 0 /\ iteration = 0 /\ attempt = 0 /\ evals = 0 /\ vnd_l = 0
    /\ produced = <<>>
    /\ twin = <<>>
    /\ stdin = <<>> /\ parsed = <<>> /\ lists = <<>> /\ search = <<>>

\* a bug the multi-start could have: a solution as good as the best replaces it
GenerateOneKeepsLatest ==
    /\ pc = "generating"
    /\ starts < num_starts
    /\ \E workers \in Permutations0(inst.num_workers) :
          LET sol == generate_initial_solution(inst, workers)
          IN  /\ heap' = Append(heap, sol)
              /\ best' = IF best = 0 \/ ~Lt(heap[best], sol) THEN Len(heap) + 1 ELSE best
    /\ starts' = starts + 1
    /\ UNCHANGED <<search, lists, stdin, parsed, inst, twin, vnd_l, num_starts, max_iter, k_max, time_limit, s_initial, s_best,
                   s_current, s_prime, s_prime_prime, k, iteration, attempt, pc, evals, produced>>

\* for _ in range(num_starts): sol = generate_initial_solution(instance); ...
GenerateOne ==
    /\ pc = "generating"
    /\ starts < num_starts
    /\ \E workers \in Permutations0(inst.num_workers) :
          LET sol == generate_initial_solution(inst, workers)
          IN  /\ heap' = Append(heap, sol)
              /\ best' = IF best = 0 \/ Lt(sol, heap[best]) THEN Len(heap) + 1 ELSE best
    /\ starts' = starts + 1
    /\ UNCHANGED <<search, lists, stdin, parsed, inst, twin, vnd_l, num_starts, max_iter, k_max, time_limit, s_initial, s_best, s_current,
                   s_prime, s_prime_prime, k, iteration, attempt, pc, evals, produced>>

\* return best
GenerateReturn ==
    /\ pc = "generating"
    /\ starts = num_starts
    /\ pc' = "returned"
    /\ UNCHANGED <<search, lists, stdin, parsed, inst, twin, vnd_l, num_starts, max_iter, k_max, time_limit, heap, best, starts, s_initial,
                   s_best, s_current, s_prime, s_prime_prime, k, iteration, attempt, evals,
                   produced>>

NextGen ==
    \/ GenerateOne
    \/ GenerateReturn

SpecGen == InitGen /\ [][NextGen]_vars

\* ------------------------------------- properties of the initial solution
\* the precedence pairs as 0-based edges
Edges == { <<inst.precedences[p][1] - 1, inst.precedences[p][2] - 1>> :
             p \in 1..Len(inst.precedences) }

RECURSIVE Reach(_, _)
\* the tasks reachable from the set S in at most `steps` more edges
Reach(S, steps) ==
    IF steps = 0 THEN S
    ELSE Reach(S \cup { e[2] : e \in { x \in Edges : x[1] \in S } }, steps - 1)

\* no task precedes itself, directly or through other tasks
Acyclic == \A i \in Tasks : i \notin Reach({ e[2] : e \in { x \in Edges : x[1] = i } }, inst.num_tasks)

\* station s has a worker capable of task i and is not below the station of any
\* predecessor of i under the assignment t
Fits(w, t, i, s) ==
    /\ inst.task_times[w[s]][i] < INF
    /\ \A e \in Edges : e[2] = i => t[e[1]] <= s

\* t gives every task the first station that fits it
FirstFit(w, t) ==
    \A i \in Tasks : Fits(w, t, i, t[i]) /\ \A s \in Stations : s < t[i] => ~Fits(w, t, i, s)

\* every task can be placed in its turn under the worker permutation w
Placeable(w) == \E t \in [Tasks -> Stations] : FirstFit(w, t)

\* C13: on an acyclic instance where every task, in its turn, has a station with a
\* capable worker that is not below the stations of its predecessors, every solution
\* generate_initial_solution returns is feasible and assigns each task the first
\* such station, whatever worker permutation was drawn.
C13_GeneratorFeasibleWhenPlaceable ==
    \A o \in Objects :
        (Acyclic /\ Placeable(heap[o].worker_station_assignment)) =>
            /\ heap[o].is_feasible
            /\ heap[o].cycle_time < INF
            /\ FirstFit(heap[o].worker_station_assignment, heap[o].task_station_assignment)

\* a feasible solution was generated where a precedence chain and an incapable
\* worker pushed a task past the first station
C13_Witness ==
    /\ pc = "returned"
    /\ Len(inst.precedences) >= 2
    /\ \E o \in Objects :
          /\ Acyclic /\ Placeable(heap[o].worker_station_assignment)
          /\ heap[o].is_feasible
          /\ \E i \in Tasks : heap[o].task_station_assignment[i] > 0
          /\ \E e \in Edges : heap[o].task_station_assignment[e[1]] < heap[o].task_station_assignment[e[2]]

\* the fields of a solution no task of which is assigned, as __init__ leaves them
Unassigned(sol) ==
    /\ sol.task_station_assignment = [i \in Tasks |-> -1]
    /\ ~sol.is_feasible
    /\ sol.cycle_time = INF

\* C14: when the precedence graph has a cycle (a self-loop included) every solution
\* generate_initial_solution returns has all tasks at station -1, is_feasible false,
\* infinite cycle_time and a full permutation as worker_station.
C14_CycleGivesUnassigned ==
    \A o \in Objects :
        ~Acyclic =>
            /\ Unassigned(heap[o])
            /\ heap[o].worker_station_assignment \in Permutations0(inst.num_workers)

\* a solution was generated for three tasks, two of them on a cycle of length two
\* and the third outside it, with two workers
C14_Witness ==
    /\ pc = "returned"
    /\ inst.num_tasks = 3 /\ inst.num_workers = 2
    /\ ~Acyclic
    /\ \A e \in Edges : e[1] # e[2]
    /\ \E i \in Tasks : \A e \in Edges : e[1] # i /\ e[2] # i
    /\ heap # <<>>

\* the assignment the greedy scan had built when it stopped, for the permutation w
Built(w) == greedyLoop(inst, w, topoOrder(inst), 1, [i \in Tasks |-> -1]).t

\* C15 as stated: when some task has no qualifying station the solution returned is
\* flagged infeasible and holds the partial assignment built so far.
C15_UnallocatableKeepsPartial ==
    \A o \in Objects :
        (Acyclic /\ ~Placeable(heap[o].worker_station_assignment)) =>
            /\ ~heap[o].is_feasible
            /\ heap[o].task_station_assignment = Built(heap[o].worker_station_assignment)

\* C15 amended: when some task has no qualifying station the solution returned is
\* flagged infeasible with infinite cycle_time and every task unassigned (station
\* -1), the stations given to earlier tasks being discarded; worker_station is the
\* permutation drawn and no station time has been computed.
C15_UnallocatableGivesUnassigned ==
    \A o \in Objects :
        (Acyclic /\ ~Placeable(heap[o].worker_station_assignment)) =>
            /\ Unassigned(heap[o])
            /\ heap[o].station_times = <<>>
            /\ heap[o].worker_station_assignment \in Permutations0(inst.num_workers)

\* a solution was generated where the greedy scan had placed a task before it met
\* one with no qualifying station
C15_Witness ==
    \E o \in Objects :
        /\ Acyclic /\ ~Placeable(heap[o].worker_station_assignment)
        /\ \E i \in Tasks : Built(heap[o].worker_station_assignment)[i] >= 0
        /\ \E i \in Tasks : Built(heap[o].worker_station_assignment)[i] = -1

\* ------------------------------------------------------------- vnd alone
\* vnd(solution) on its own, one pass of its while loop per step; s_initial names
\* the solution vnd was given and `produced` its fields at the call
InitVnd ==
    /\ inst \in Instances
    /\ \E t1 \in TaskArrays(inst) : \E w1 \in Permutations0(inst.num_workers) :
          /\ heap = << ALWABPSolution(t1, w1) >>
          /\ produced = ALWABPSolution(t1, w1)
    /\ s_initial = 1 /\ s_current = 1
    /\ vnd_l = 1
    /\ pc = "vnd_loop"
    /\ num_starts = NumStarts /\ max_iter = 0 /\ k_max = 0 /\ time_limit = FALSE
    /\ best = 0 /\ starts = 0 /\ s_best = 0 /\ s_prime = 0 /\ s_prime_prime = 0
    /\ k = 0 /\ iteration = 0 /\ attempt = 0 /\ evals = 0
    /\ twin = <<>>
    /\ stdin = <<>> /\ parsed = <<>> /\ lists = <<>> /\ search = <<>>

\* a bug vnd could have: after an improvement it goes on with the next search
VndCompareNoRestart(res) ==
    IF res.raised
    THEN Store(res.heap, 0, s_initial, 0, s_current, 0, 0) /\ vnd_l' = vnd_l /\ pc' = "raised"
    ELSE IF Lt(res.heap[res.ref], res.heap[s_current])
    THEN Store(res.heap, 0, s_initial, 0, res.ref, 0, 0) /\ vnd_l' = vnd_l + 1 /\ pc' = pc
    ELSE Store(res.heap, 0, s_initial, 0, s_current, 0, 0) /\ vnd_l' = vnd_l + 1 /\ pc' = pc

\* if s_prime < s_current: s_current = s_prime; l = 1; else: l += 1
VndCompare(res) ==
    IF res.raised
    THEN Store(res.heap, 0, s_initial, 0, s_current, 0, 0) /\ vnd_l' = vnd_l /\ pc' = "raised"
    ELSE IF Lt(res.heap[res.ref], res.heap[s_current])
    THEN Store(res.heap, 0, s_initial, 0, res.ref, 0, 0) /\ vnd_l' = 1 /\ pc' = pc
    ELSE Store(res.heap, 0, s_initial, 0, s_current, 0, 0) /\ vnd_l' = vnd_l + 1 /\ pc' = pc

\* l == 1: s_prime = local_search_task_reassignment(s_current), and the comparison
VndTaskSearch ==
    /\ pc = "vnd_loop"
    /\ vnd_l = 1
    /\ VndCompare(local_search_task_reassignment(inst, heap, s_current))
    /\ UNCHANGED <<search, lists, stdin, parsed, inst, twin, num_starts, max_iter, k_max, time_limit, starts, k, iteration, attempt,
                   evals, produced>>

\* l == 2: s_prime = local_search_worker_swap(s_current), and the comparison
VndWorkerSwap ==
    /\ pc = "vnd_loop"
    /\ vnd_l = 2
    /\ VndCompare(local_search_worker_swap(inst, heap, s_current))
    /\ UNCHANGED <<search, lists, stdin, parsed, inst, twin, num_starts, max_iter, k_max, time_limit, starts, k, iteration, attempt,
                   evals, produced>>

\* the loop ends: return s_current
VndExit ==
    /\ pc = "vnd_loop"
    /\ vnd_l > 2
    /\ pc' = "vnd_returned"
    /\ UNCHANGED <<search, lists, stdin, parsed, inst, twin, vnd_l, num_starts, max_iter, k_max, time_limit, heap, best, starts,
                   s_initial, s_best, s_current, s_prime, s_prime_prime, k, iteration, attempt,
                   evals, produced>>

NextVnd ==
    \/ VndTaskSearch
    \/ VndWorkerSwap
    \/ VndExit

SpecVnd == InitVnd /\ [][NextVnd]_vars

\* ------------------------------------------------------ properties of vnd
\* a local search applied to the current solution returns nothing strictly better
TaskSearchFails ==
    ~Lt(local_search_task_reassignment(inst, heap, s_current).heap[
            local_search_task_reassignment(inst, heap, s_current).ref],
        evaluate(inst, heap[s_current]))

WorkerSwapFails ==
    ~Lt(local_search_worker_swap(inst, heap, s_current).heap[
            local_search_worker_swap(inst, heap, s_current).ref],
        evaluate(inst, heap[s_current]))

\* the atomic vnd of the driver returns what the loop returns step by step
VndAgreesWithLoop ==
    pc = "vnd_returned" =>
        heap[s_current] = vnd(inst, <<produced>>, 1).heap[vnd(inst, <<produced>>, 1).ref]

\* C16: vnd starts with the task-reassignment search; a pass whose search returns a
\* strictly better solution adopts it and goes back to task reassignment (l = 1),
\* any other pass keeps the solution and moves to the next search; the worker-swap
\* search runs only on a solution task reassignment failed to improve, and vnd
\* returns only after both failed on the same solution, so that neither search
\* improves what it returns, which is never worse than what it was given.
C16_VndRestartsOnImprovement ==
    /\ [](pc = "vnd_loop" => vnd_l \in 1..3)
    /\ []((pc \in {"vnd_loop", "vnd_returned"} /\ vnd_l >= 2) => TaskSearchFails)
    /\ []((pc \in {"vnd_loop", "vnd_returned"} /\ vnd_l >= 3) => WorkerSwapFails)
    /\ [](pc = "vnd_returned" =>
            /\ vnd_l = 3
            /\ ~Lt(evaluate(inst, produced), heap[s_current]))
    /\ [][(pc = "vnd_loop" /\ pc' = "vnd_loop") =>
            IF Lt(heap'[s_current'], evaluate(inst, heap[s_current]))
            THEN vnd_l' = 1
            ELSE vnd_l' = vnd_l + 1 /\ heap'[s_current'] = evaluate(inst, heap[s_current])]_vars

\* vnd returned a solution that differs from the one it was given both in the
\* stations of the tasks and in the workers of the stations
C16_Witness ==
    /\ pc = "vnd_returned"
    /\ heap[s_current].task_station_assignment # produced.task_station_assignment
    /\ heap[s_current].worker_station_assignment # produced.worker_station_assignment

\* ------------------------------------------------ the worker permutation
\* C17: worker_station of every solution a name of the driver refers to, whether
\* created by the generator, by shaking, by a local search or by vnd, feasible or
\* flagged infeasible, is a permutation of 0..num_workers-1.
C17_WorkersArePermutation ==
    \A o \in Objects :
        /\ DOMAIN heap[o].worker_station_assignment = Stations
        /\ \A s \in Stations : heap[o].worker_station_assignment[s] \in Range0(inst.num_workers)
        /\ \A s1, s2 \in Stations :
              heap[o].worker_station_assignment[s1] = heap[o].worker_station_assignment[s2]
                 => s1 = s2
        /\ \A wk \in Range0(inst.num_workers) :
              \E s \in Stations : heap[o].worker_station_assignment[s] = wk

\* vnd returned a solution whose workers are placed otherwise than in the initial
\* solution and otherwise than in the neighbour shaking had produced
C17_Witness ==
    /\ pc = "accept"
    /\ inst.num_workers = 2
    /\ heap[s_prime_prime].worker_station_assignment # heap[s_prime].worker_station_assignment
    /\ heap[s_prime].worker_station_assignment # heap[s_initial].worker_station_assignment

\* ---------------------------------------------------------- shaking alone
\* one pass of the loop of shaking(solution, k) on its own: heap[1] is the solution
\* given, heap[2] the candidate built from copies of its arrays
InitShake ==
    /\ inst \in InstancesUpTo(0)
    /\ k \in 1..MaxKMax
    /\ \E t1 \in TaskArrays(inst) : \E w1 \in Permutations0(inst.num_workers) :
          heap = << ALWABPSolution(t1, w1) >>
    /\ pc = "shaking"
    /\ attempt = 0
    /\ num_starts = NumStarts /\ max_iter = 0 /\ k_max = MaxKMax /\ time_limit = FALSE
    /\ best = 0 /\ starts = 0
    /\ s_initial = 0 /\ s_best = 0 /\ s_current = 1 /\ s_prime = 0 /\ s_prime_prime = 0
    /\ iteration = 0 /\ evals = 0 /\ vnd_l = 0
    /\ produced = <<>>
    /\ twin = <<>>
    /\ stdin = <<>> /\ parsed = <<>> /\ lists = <<>> /\ search = <<>>

\* new_t, new_w = copies; the move for k; the checks of the candidate
ShakeBuild ==
    /\ pc = "shaking"
    /\ \E c \in candidates(inst, heap[s_current], k) :
          /\ heap' = << heap[1], ALWABPSolution(c.new_t, c.new_w) >>
          /\ pc' = attemptOutcome(inst, c)
    /\ attempt' = attempt + 1
    /\ UNCHANGED <<search, lists, stdin, parsed, inst, twin, vnd_l, num_starts, max_iter, k_max, time_limit, best, starts, s_initial,
                   s_best, s_current, s_prime, s_prime_prime, k, iteration, evals, produced>>

NextShake == ShakeBuild

SpecShake == InitShake /\ [][NextShake]_vars

\* ------------------------------------------------- properties of shaking
\* the tasks whose station differs between the solution given and the candidate
Changed == { i \in Tasks : heap[2].task_station_assignment[i] # heap[1].task_station_assignment[i] }

WorkersUntouched == heap[2].worker_station_assignment = heap[1].worker_station_assignment

\* the stations of two distinct tasks are exchanged
TwoTasksExchanged ==
    \E i1, i2 \in Tasks :
        /\ i1 # i2
        /\ heap[2].task_station_assignment =
              [heap[1].task_station_assignment EXCEPT ![i1] = heap[1].task_station_assignment[i2],
                                                      ![i2] = heap[1].task_station_assignment[i1]]

\* the workers of exactly two distinct stations are exchanged
TwoWorkersExchanged ==
    \E s1, s2 \in Stations :
        /\ s1 # s2
        /\ heap[2].worker_station_assignment =
              [heap[1].worker_station_assignment EXCEPT ![s1] = heap[1].worker_station_assignment[s2],
                                                        ![s2] = heap[1].worker_station_assignment[s1]]

\* one task has its station replaced by (station + 1) mod num_workers
OneTaskIncremented ==
    \E i \in Tasks :
        heap[2].task_station_assignment =
            [heap[1].task_station_assignment EXCEPT
                ![i] = (heap[1].task_station_assignment[i] + 1) % inst.num_workers]

\* C19 as stated: the moves for k = 1, 2, 3 apply when there are at least 2 tasks
\* and 2 workers; for k > 3, or with fewer than 2 tasks or fewer than 2 workers,
\* exactly one task (if there is any) has its station replaced by (station + 1) mod
\* num_workers and nothing else changes.
C19_MoveOrDegenerateFallback ==
    pc # "shaking" =>
        IF k > 3 \/ inst.num_tasks < 2 \/ inst.num_workers < 2
        THEN (inst.num_tasks >= 1 => OneTaskIncremented) /\ WorkersUntouched
        ELSE /\ k = 1 => TwoTasksExchanged /\ WorkersUntouched
             /\ k = 2 => Cardinality(Changed) <= 3 /\ WorkersUntouched
             /\ k = 3 => TwoWorkersExchanged /\ Cardinality(Changed) <= 2

\* the condition under which shaking takes its last branch
TakesFallback ==
    \/ k > 3
    \/ k = 1 /\ inst.num_tasks < 2
    \/ k = 2 /\ inst.num_tasks = 0
    \/ k = 3 /\ inst.num_workers < 2

\* C19 amended: for k = 1 with at least 2 tasks the stations of two distinct tasks
\* are exchanged and workers are untouched; for k = 2 with at least 1 task (whatever
\* the number of workers) at most min(3, n) tasks change station, each to a station
\* of 0..m-1, and workers are untouched; for k = 3 with at least 2 workers (whatever
\* the number of tasks) the workers of exactly two distinct stations are exchanged
\* and at most min(2, n) tasks change station; otherwise (k > 3, k = 1 with fewer
\* than 2 tasks, k = 3 with fewer than 2 workers) one task has its station replaced
\* by (station + 1) mod num_workers and nothing else changes, and with no task at
\* all the candidate equals the solution given.
C19_MoveByBranch ==
    pc # "shaking" =>
        /\ (k = 1 /\ inst.num_tasks >= 2) => TwoTasksExchanged /\ WorkersUntouched
        /\ (k = 2 /\ inst.num_tasks >= 1) =>
              /\ Cardinality(Changed) <= Min(3, inst.num_tasks)
              /\ \A i \in Changed : heap[2].task_station_assignment[i] \in Stations
              /\ WorkersUntouched
        /\ (k = 3 /\ inst.num_workers >= 2) =>
              /\ TwoWorkersExchanged
              /\ Cardinality(Changed) <= Min(2, inst.num_tasks)
              /\ \A i \in Changed : heap[2].task_station_assignment[i] \in Stations
        /\ (TakesFallback /\ inst.num_tasks >= 1) => OneTaskIncremented /\ WorkersUntouched
        /\ (TakesFallback /\ inst.num_tasks = 0) => Changed = {} /\ WorkersUntouched

\* a candidate for k = 3 exchanged two workers and moved two of three tasks
C19_Witness ==
    /\ pc # "shaking"
    /\ k = 3
    /\ inst.num_tasks = 3
    /\ ~WorkersUntouched
    /\ Cardinality(Changed) = 2

\* ------------------------------------------------ properties of multi-start
\* C20: generate_initial_solution_multi(num_starts), num_starts >= 1, runs the
\* generator exactly num_starts times and returns one of the solutions generated
\* that none of them is strictly better than; among equally good ones it returns
\* the earliest generated.
C20_MultiStartKeepsEarliestBest ==
    /\ Len(heap) = starts
    /\ starts <= num_starts
    /\ pc = "returned" =>
          /\ starts = num_starts
          /\ best \in Objects
          /\ \A o \in Objects : ~Lt(heap[o], heap[best])
          /\ \A o \in Objects : o < best => Lt(heap[best], heap[o])

\* three starts: the second solution beat the first, and the third, as good as the
\* second, did not replace it
C20_Witness ==
    /\ pc = "returned"
    /\ num_starts = 3
    /\ best = 2
    /\ heap[2].is_feasible = heap[3].is_feasible
    /\ heap[2].cycle_time = heap[3].cycle_time

\* ------------------------------------------------------- two runs of vns
\* A second run of vns on the same instance and parameters, fed the same random
\* draws, is carried in `twin` as a record of its own heap, names and position.
\* Each step below takes one step of the first run and the step of the second run
\* for the same draw; the clock of the second run is its own.
TwinInit ==
    [heap |-> <<>>, best |-> 0, starts |-> 0, s_initial |-> 0, s_best |-> 0, s_current |-> 0,
     s_prime |-> 0, s_prime_prime |-> 0, k |-> 0, iteration |-> 0, attempt |-> 0, pc |-> "multi"]

\* the first run, seen as such a record
FirstRun ==
    [heap |-> heap, best |-> best, starts |-> starts, s_initial |-> s_initial,
     s_best |-> s_best, s_current |-> s_current, s_prime |-> s_prime,
     s_prime_prime |-> s_prime_prime, k |-> k, iteration |-> iteration, attempt |-> attempt,
     pc |-> pc]

\* the second run is at another statement than the first
Diverged(tw) == [tw EXCEPT !.pc = "diverged"]

\* Store, on the record of the second run
twinStoreLive(tw, h, live, r_best, r_initial, r_s_best, r_current, r_prime, r_prime_prime) ==
    [tw EXCEPT !.heap = [j \in 1..Len(live) |-> h[live[j]]],
               !.best = renumber(live, r_best),
               !.s_initial = renumber(live, r_initial),
               !.s_best = renumber(live, r_s_best),
               !.s_current = renumber(live, r_current),
               !.s_prime = renumber(live, r_prime),
               !.s_prime_prime = renumber(live, r_prime_prime)]

twinStore(tw, h, r_best, r_initial, r_s_best, r_current, r_prime, r_prime_prime) ==
    twinStoreLive(tw, h,
        liveRefs(<<r_initial, r_s_best, r_current, r_best, r_prime, r_prime_prime>>, 1, <<>>),
        r_best, r_initial, r_s_best, r_current, r_prime, r_prime_prime)

\* generate_initial_solution_multi: one pass of its loop
twinGenerated(tw, h) ==
    [twinStore(tw, h,
               IF tw.best = 0 \/ Lt(h[Len(h)], tw.heap[tw.best]) THEN Len(h) ELSE tw.best,
               0, 0, 0, 0, 0)
        EXCEPT !.starts = tw.starts + 1]

twinGenerateStart(tw, workers) ==
    IF tw.pc = "multi" /\ tw.starts < num_starts
    THEN twinGenerated(tw, Append(tw.heap, generate_initial_solution(inst, workers)))
    ELSE Diverged(tw)

\* s_best = s_current = s_initial; iteration = 0
twinVnsStart(tw) ==
    IF tw.pc = "multi" /\ tw.starts = num_starts
    THEN [twinStore(tw, tw.heap, 0, tw.best, tw.best, tw.best, 0, 0)
             EXCEPT !.iteration = 0, !.pc = "outer"]
    ELSE Diverged(tw)

\* while iteration < max_iter: the time check, k = 1
twinOuterStep(tw, over) ==
    IF tw.pc # "outer" THEN Diverged(tw)
    ELSE IF tw.iteration < max_iter /\ ~over THEN [tw EXCEPT !.k = 1, !.pc = "inner"]
    ELSE [tw EXCEPT !.pc = "done"]

\* while k <= k_max: the time check; after the loop, iteration += 1
twinInnerStep(tw, over) ==
    IF tw.pc # "inner" THEN Diverged(tw)
    ELSE IF tw.k <= k_max
    THEN IF over THEN [tw EXCEPT !.pc = "done"] ELSE [tw EXCEPT !.pc = "shake", !.attempt = 0]
    ELSE [tw EXCEPT !.iteration = tw.iteration + 1, !.pc = "outer"]

\* shaking: one pass of its loop, for the candidate the draws produce
twinAttempted(tw, c, outcome) ==
    IF outcome = "return"
    THEN [twinStore(tw, Append(tw.heap, evaluate(inst, ALWABPSolution(c.new_t, c.new_w))),
                    tw.best, tw.s_initial, tw.s_best, tw.s_current, Len(tw.heap) + 1, 0)
             EXCEPT !.attempt = tw.attempt + 1, !.pc = "vnd"]
    ELSE [tw EXCEPT !.attempt = tw.attempt + 1,
                    !.pc = IF outcome = "raise" THEN "raised" ELSE "shake"]

twinShakeAttempt(tw, c) ==
    IF tw.pc = "shake" /\ tw.attempt < ShakeAttempts
    THEN IF c \in candidates(inst, tw.heap[tw.s_current], tw.k)
         THEN twinAttempted(tw, c, attemptOutcome(inst, c))
         ELSE Diverged(tw)
    ELSE Diverged(tw)

\* shaking: return solution
twinShakeFallback(tw) ==
    IF tw.pc = "shake" /\ tw.attempt = ShakeAttempts
    THEN [tw EXCEPT !.s_prime = tw.s_current, !.pc = "vnd"]
    ELSE Diverged(tw)

\* s_prime_prime = vnd(s_prime)
twinVndReturn(tw, res) ==
    [twinStore(tw, res.heap, tw.best, tw.s_initial, tw.s_best, tw.s_current, tw.s_prime,
               IF res.raised THEN 0 ELSE res.ref)
        EXCEPT !.pc = IF res.raised THEN "raised" ELSE "accept"]

twinVndStep(tw) ==
    IF tw.pc = "vnd" THEN twinVndReturn(tw, vnd(inst, tw.heap, tw.s_prime)) ELSE Diverged(tw)

\* if s_prime_prime < s_current: ... else: k += 1
twinAcceptStep(tw) ==
    IF tw.pc # "accept" THEN Diverged(tw)
    ELSE IF Lt(tw.heap[tw.s_prime_prime], tw.heap[tw.s_current])
    THEN [twinStore(tw, tw.heap, tw.best, tw.s_initial,
                    IF Lt(tw.heap[tw.s_prime_prime], tw.heap[tw.s_best])
                    THEN tw.s_prime_prime ELSE tw.s_best,
                    tw.s_prime_prime, 0, 0)
             EXCEPT !.k = 1, !.pc = "inner"]
    ELSE [twinStore(tw, tw.heap, tw.best, tw.s_initial, tw.s_best, tw.s_current, 0, 0)
             EXCEPT !.k = tw.k + 1, !.pc = "inner"]

\* both runs start on the same instance with the same parameters and no time limit
InitTwin ==
    /\ inst \in Instances
    /\ num_starts = NumStarts
    /\ max_iter \in 0..MaxIter
    /\ k_max \in 0..MaxKMax
    /\ time_limit = FALSE
    /\ heap = <<>>
    /\ best = 0 /\ starts = 0
    /\ s_initial = 0 /\ s_best = 0 /\ s_current = 0 /\ s_prime = 0 /\ s_prime_prime = 0
    /\ k = 0 /\ iteration = 0 /\ attempt = 0
    /\ pc = "multi"
    /\ evals = 0 /\ vnd_l = 0
    /\ produced = <<>>
    /\ twin = TwinInit
    /\ stdin = <<>> /\ parsed = <<>> /\ lists = <<>> /\ search = <<>>

TwinGenerateStart ==
    /\ pc = "multi"
    /\ starts < num_starts
    /\ \E workers \in Permutations0(inst.num_workers) :
          GenerateStartWith(workers) /\ twin' = twinGenerateStart(twin, workers)

TwinVnsStart == VnsStartEffect /\ twin' = twinVnsStart(twin)

TwinOuterStep == OuterStepEffect /\ \E over \in Elapsed : twin' = twinOuterStep(twin, over)

TwinInnerStep == InnerStepEffect /\ \E over \in Elapsed : twin' = twinInnerStep(twin, over)

TwinShakeAttempt ==
    /\ pc = "shake"
    /\ attempt < ShakeAttempts
    /\ \E c \in candidates(inst, heap[s_current], k) :
          ShakeAttemptWith(c) /\ twin' = twinShakeAttempt(twin, c)

TwinShakeFallback == ShakeFallbackEffect /\ twin' = twinShakeFallback(twin)

TwinVndStep == VndStepEffect /\ twin' = twinVndStep(twin)

TwinAcceptStep == AcceptStepEffect /\ twin' = twinAcceptStep(twin)

NextTwin ==
    \/ TwinGenerateStart
    \/ TwinVnsStart
    \/ TwinOuterStep
    \/ TwinInnerStep
    \/ TwinShakeAttempt
    \/ TwinShakeFallback
    \/ TwinVndStep
    \/ TwinAcceptStep

SpecTwin == InitTwin /\ [][NextTwin]_vars

MaxLines == 4
MaxCols == 2

\* a token of a line: an integer literal, or text that neither int() nor float() accepts
Tokens == ({"int"} \X {-1, 1, 2}) \cup { <<"text", 0>> }

\* a line after strip() and split(): at most MaxCols tokens, or a comment line
Lines == UNION { [1..len -> Tokens] : len \in 0..MaxCols } \cup { << <<"#", 0>> >> }

Inputs == UNION { [1..len -> Lines] : len \in 0..MaxLines }

\* int(x) and float(x) succeed
isNumber(tok) == tok[1] = "int"

\* readline() returns '' at the end of the input
AtEOF == parsed.read >= Len(stdin)

\* readline().strip().split() when there is a line left
line == stdin[parsed.read + 1]

InitParse ==
    /\ stdin \in Inputs
    /\ parsed = [read |-> 0, num_tasks |-> 0, num_workers |-> 0,
                 task_times_raw |-> <<>>, precedences |-> <<>>]
    /\ pc = "read_n"
    /\ inst = <<>>
    /\ heap = <<>> /\ twin = <<>> /\ produced = <<>> /\ lists = <<>> /\ search = <<>>
    /\ num_starts = NumStarts /\ max_iter = 0 /\ k_max = 0 /\ time_limit = FALSE
    /\ best = 0 /\ starts = 0
    /\ s_initial = 0 /\ s_best = 0 /\ s_current = 0 /\ s_prime = 0 /\ s_prime_prime = 0
    /\ k = 0 /\ iteration = 0 /\ attempt = 0 /\ evals = 0 /\ vnd_l = 0

\* num_tasks = int(line), or the message and sys.exit(1)
ReadN ==
    /\ pc = "read_n"
    /\ IF AtEOF
       THEN pc' = "exit" /\ UNCHANGED parsed
       ELSE IF Len(line) = 1 /\ isNumber(line[1])
            THEN /\ parsed' = [parsed EXCEPT !.read = @ + 1, !.num_tasks = line[1][2]]
                 /\ pc' = IF line[1][2] > 0 THEN "read_times" ELSE "read_precedences"
            ELSE /\ parsed' = [parsed EXCEPT !.read = @ + 1]
                 /\ pc' = "exit"
    /\ UNCHANGED <<stdin, inst, vnsVars, heap, evals>>

\* one pass of 'for _ in range(num_tasks)': a row of times, or the message and sys.exit(1)
ReadTimes ==
    /\ pc = "read_times"
    /\ IF AtEOF
       THEN pc' = "exit" /\ UNCHANGED parsed
       ELSE IF /\ Len(line) > 0
               /\ \A c \in 1..Len(line) : isNumber(line[c])
               /\ (parsed.num_workers = 0 \/ Len(line) = parsed.num_workers)
            THEN /\ parsed' = [parsed EXCEPT
                                 !.read = @ + 1,
                                 !.task_times_raw = Append(@, [c \in 1..Len(line) |-> line[c][2]]),
                                 !.num_workers = IF @ = 0 THEN Len(line) ELSE @]
                 /\ pc' = IF Len(parsed.task_times_raw) + 1 = parsed.num_tasks
                          THEN "read_precedences" ELSE "read_times"
            ELSE /\ parsed' = [parsed EXCEPT !.read = @ + 1]
                 /\ pc' = "exit"
    /\ UNCHANGED <<stdin, inst, vnsVars, heap, evals>>

\* one pass of 'while True': a pair, the end marker, a skipped line, or sys.exit(1)
ReadPrecedence ==
    /\ pc = "read_precedences"
    /\ IF AtEOF
       THEN pc' = "init" /\ UNCHANGED parsed
       ELSE IF Len(line) = 0
            THEN parsed' = [parsed EXCEPT !.read = @ + 1] /\ pc' = pc
       ELSE IF Len(line) = 2 /\ isNumber(line[1]) /\ isNumber(line[2])
            THEN IF line[1][2] = -1 /\ line[2][2] = -1
                 THEN parsed' = [parsed EXCEPT !.read = @ + 1] /\ pc' = "init"
                 ELSE /\ parsed' = [parsed EXCEPT
                                      !.read = @ + 1,
                                      !.precedences = Append(@, <<line[1][2], line[2][2]>>)]
                      /\ pc' = pc
       ELSE /\ parsed' = [parsed EXCEPT !.read = @ + 1]
            /\ pc' = IF line[1][1] = "#" THEN pc ELSE "exit"
    /\ UNCHANGED <<stdin, inst, vnsVars, heap, evals>>

\* the keys of self.predecessors and self.successors
TaskKeys(num_tasks) == 1..num_tasks

\* task_times[w][i] = task_times_raw[i][w]
Transposed(num_tasks, num_workers, raw) ==
    IF num_tasks > 0
    THEN [w \in Range0(num_workers) |-> [i \in Range0(num_tasks) |-> raw[i + 1][w + 1]]]
    ELSE <<>>

\* cls(num_tasks, num_workers, task_times_transposed, precedences): __init__ fills the
\* dictionaries pair by pair; a key that is not a task raises KeyError
InstanceInit ==
    /\ pc = "init"
    /\ IF \A p \in 1..Len(parsed.precedences) :
             /\ parsed.precedences[p][1] \in TaskKeys(parsed.num_tasks)
             /\ parsed.precedences[p][2] \in TaskKeys(parsed.num_tasks)
       THEN /\ inst' = ALWABPInstance(parsed.num_tasks, parsed.num_workers,
                          Transposed(parsed.num_tasks, parsed.num_workers, parsed.task_times_raw),
                          parsed.precedences)
            /\ pc' = "returned"
       ELSE /\ pc' = "KeyError"
            /\ UNCHANGED inst
    /\ UNCHANGED <<stdin, parsed, vnsVars, heap, evals>>

NextParse == ReadN \/ ReadTimes \/ ReadPrecedence \/ InstanceInit

SpecParse == InitParse /\ [][NextParse]_vars

\* the task count is missing or unparsable
NMissing == Len(stdin) = 0 \/ ~(Len(stdin[1]) = 1 /\ isNumber(stdin[1][1]))

\* a row of the time matrix has another number of columns than the first row
RowMismatch ==
    /\ ~NMissing
    /\ \E r \in 2..(stdin[1][1][2] + 1) : r <= Len(stdin) /\ Len(stdin[r]) # Len(stdin[2])

\* a pair read before the end marker names a task outside 1..n
PairOutside ==
    /\ pc \in {"init", "returned", "KeyError"}
    /\ \E p \in 1..Len(parsed.precedences) :
          \/ parsed.precedences[p][1] \notin 1..parsed.num_tasks
          \/ parsed.precedences[p][2] \notin 1..parsed.num_tasks

\* C21: reading a malformed instance (a row of another width, a missing or unparsable
\* task count, a precedence pair outside 1..n) ends in the reported failure, never in
\* an instance and never in a generic exception (stated for inputs whose task count,
\* when it parses, is at least 1)
C21_MalformedFailsTyped ==
    (NMissing \/ stdin[1][1][2] >= 1) =>
        /\ pc # "KeyError"
        /\ (pc \in {"returned", "exit", "KeyError"} /\ (NMissing \/ RowMismatch \/ PairOutside))
              => pc = "exit"

\* what the reader does guarantee: the two checked malformations are reported, and
\* KeyError comes from a pair outside 1..n only
ParseReportsRowsAndCount ==
    /\ (pc \in {"returned", "KeyError"} => ~NMissing /\ ~RowMismatch)
    /\ (pc = "KeyError" => PairOutside)
    /\ (pc = "returned" => ~PairOutside)

\* --------------------------------- the identity of the arrays (SpecLists)
\* Here a solution holds its two arrays by reference into `lists`, as the Python
\* object does, and every place of the program that constructs a solution is an
\* action on any solution alive.
MaxObjects == 3

\* a bug the copy sites could have: the list itself in place of list(x)
listAliased(ls, r) == [ref |-> r, lists |-> ls]

\* list(x): a new list object with the elements of the list r
listCopy(ls, r) == [ref |-> Len(ls) + 1, lists |-> Append(ls, ls[r])]

\* ALWABPSolution.__init__ keeps the two lists it is given
SolutionOf(t_ref, w_ref) ==
    [task_station_assignment |-> t_ref, worker_station_assignment |-> w_ref]

\* the solution object o with the elements of its lists
content(ls, o) ==
    ALWABPSolution(ls[o.task_station_assignment], ls[o.worker_station_assignment])

InitLists ==
    /\ inst \in InstancesUpTo(0)
    /\ heap = <<>>
    /\ lists = <<>> /\ search = <<>>
    /\ pc = "start"
    /\ stdin = <<>> /\ parsed = <<>> /\ twin = <<>> /\ produced = <<>>
    /\ num_starts = NumStarts /\ max_iter = 0 /\ k_max = MaxKMax /\ time_limit = FALSE
    /\ best = 0 /\ starts = 0
    /\ s_initial = 0 /\ s_best = 0 /\ s_current = 0 /\ s_prime = 0 /\ s_prime_prime = 0
    /\ k = 0 /\ iteration = 0 /\ attempt = 0 /\ evals = 0 /\ vnd_l = 0

ListsUnchanged ==
    UNCHANGED <<search, stdin, parsed, inst, twin, produced, num_starts, max_iter, k_max, time_limit,
                best, starts, s_initial, s_best, s_current, s_prime, s_prime_prime, k,
                iteration, attempt, evals, vnd_l>>

\* generate_initial_solution: the lists it builds (workers, [-1] * n or the greedy
\* task list) are new objects, written before the solution is constructed
GenerateLists ==
    /\ Len(heap) < MaxObjects
    /\ \E workers \in Permutations0(inst.num_workers) :
          LET sol == generate_initial_solution(inst, workers)
          IN  /\ lists' = lists \o << sol.task_station_assignment, sol.worker_station_assignment >>
              /\ heap' = Append(heap, SolutionOf(Len(lists) + 1, Len(lists) + 2))
    /\ pc' = "generate_initial_solution"
    /\ ListsUnchanged

\* one attempt of shaking on the solution o: new_t = list(base_t), new_w = list(base_w),
\* the writes of the move into new_t and new_w, and ALWABPSolution(inst, new_t, new_w)
\* when the checks before it pass; lists no solution was made of are dropped
ShakeLists ==
    /\ Len(heap) < MaxObjects
    /\ \E o \in 1..Len(heap), kk \in 1..MaxKMax :
          \E c \in candidates(inst, content(lists, heap[o]), kk) :
             LET new_t == listCopy(lists, heap[o].task_station_assignment)
                 new_w == listCopy(new_t.lists, heap[o].worker_station_assignment)
                 written == [new_w.lists EXCEPT ![new_t.ref] = c.new_t, ![new_w.ref] = c.new_w]
                 built == /\ quickCapacity(inst, c) = "ok"
                          /\ check_precedence_feasibility(inst, c.new_t)
             IN  IF built
                 THEN /\ lists' = written
                      /\ heap' = Append(heap, SolutionOf(new_t.ref, new_w.ref))
                 ELSE /\ lists' = SubSeq(written, 1, Len(lists))
                      /\ heap' = heap
    /\ pc' = "shaking"
    /\ ListsUnchanged

\* one pass of the inner loop of local_search_task_reassignment on the solution o:
\* new_t = list(...), new_t[i] = s_new, and the neighbour built of new_t and
\* list(worker_station_assignment) when the two checks pass
TaskLists ==
    /\ Len(heap) < MaxObjects
    /\ inst.num_workers > 0
    /\ \E o \in 1..Len(heap), i \in Range0(inst.num_tasks), s_new \in Range0(inst.num_workers) :
          LET cur == evaluate(inst, content(lists, heap[o]))
              new_t == listCopy(lists, heap[o].task_station_assignment)
              moved == [new_t.lists EXCEPT ![new_t.ref] = [@ EXCEPT ![i] = s_new]]
              w_copy == listCopy(moved, heap[o].worker_station_assignment)
          IN  /\ scans(inst, cur)
              /\ cur.task_station_assignment[i] = worstStation(cur.station_times, inst.num_workers)
              /\ s_new # cur.task_station_assignment[i]
              /\ IF /\ check_precedence_feasibility(inst, moved[new_t.ref])
                    /\ inst.task_times[cur.worker_station_assignment[s_new]][i] < INF
                 THEN /\ lists' = w_copy.lists
                      /\ heap' = Append(heap, SolutionOf(new_t.ref, w_copy.ref))
                 ELSE /\ lists' = SubSeq(moved, 1, Len(lists))
                      /\ heap' = heap
    /\ pc' = "local_search_task_reassignment"
    /\ ListsUnchanged

\* one pass of the loop over s2 of local_search_worker_swap on the solution o:
\* new_w = list(...), the exchange in new_w, and the neighbour built of
\* list(task_station_assignment) and new_w when the capacity check passes
SwapLists ==
    /\ Len(heap) < MaxObjects
    /\ inst.num_workers > 0
    /\ \E o \in 1..Len(heap), s2 \in Range0(inst.num_workers) :
          LET cur == evaluate(inst, content(lists, heap[o]))
              worst_station == worstStation(cur.station_times, inst.num_workers)
              new_w == listCopy(lists, heap[o].worker_station_assignment)
              swapped == [new_w.lists EXCEPT ![new_w.ref] = swap(@, worst_station, s2)]
              t_copy == listCopy(swapped, heap[o].task_station_assignment)
          IN  /\ scans(inst, cur)
              /\ s2 # worst_station
              /\ IF swapCapable(inst, cur.task_station_assignment, swapped[new_w.ref])
                 THEN /\ lists' = t_copy.lists
                      /\ heap' = Append(heap, SolutionOf(t_copy.ref, new_w.ref))
                 ELSE /\ lists' = SubSeq(swapped, 1, Len(lists))
                      /\ heap' = heap
    /\ pc' = "local_search_worker_swap"
    /\ ListsUnchanged

NextLists == GenerateLists \/ ShakeLists \/ TaskLists \/ SwapLists

SpecLists == InitLists /\ [][NextLists]_vars

\* no list is an array of two solutions, or both arrays of one
NoSharedArrays ==
    /\ \A a, b \in 1..Len(heap) : a # b =>
          {heap[a].task_station_assignment, heap[a].worker_station_assignment}
            \cap {heap[b].task_station_assignment, heap[b].worker_station_assignment} = {}
    /\ \A a \in 1..Len(heap) : heap[a].task_station_assignment # heap[a].worker_station_assignment

\* every solution alive keeps its lists and their elements through the step
ArraysFrozen ==
    \A o \in 1..Len(heap) :
        /\ heap'[o] = heap[o]
        /\ lists'[heap[o].task_station_assignment] = lists[heap[o].task_station_assignment]
        /\ lists'[heap[o].worker_station_assignment] = lists[heap[o].worker_station_assignment]

\* C22: no two solutions share a task_station or worker_station list, and no step of
\* the generator, shaking or either local search changes a list of a solution that
\* has been constructed.
C22_ArraysNeverSharedNorModified ==
    [][ NoSharedArrays' /\ ArraysFrozen ]_vars

\* three solutions alive, the last built by a local search, with assignments that
\* differ from those of the solution before it
C22_Witness ==
    /\ Len(heap) = 3
    /\ pc \in {"local_search_task_reassignment", "local_search_worker_swap"}
    /\ content(lists, heap[3]) # content(lists, heap[2])
    /\ content(lists, heap[2]) # content(lists, heap[1])

\* ------------------------- the local searches, loop by loop (SpecSearch)
\* Here the loops of local_search_task_reassignment, local_search_worker_swap and
\* vnd are stepped one candidate at a time. Every solution built and accepted
\* stays on the heap, so a reference keeps its meaning.

\* the locals of the local search fn called on the solution r
Frame(fn, r) ==
    [function |-> fn, solution |-> r, s_current |-> r, worst_station |-> 0, i |-> 0, s_new |-> 0, s2 |-> 0,
     s_neighbor |-> <<>>]

\* a solution to search from, and the call: vnd (vnd_l = 1), or one of the two
\* searches alone (vnd_l = 0)
InitSearch ==
    /\ inst \in Instances
    /\ \E t1 \in TaskArrays(inst) : \E w1 \in Permutations0(inst.num_workers) :
          /\ heap = << ALWABPSolution(t1, w1) >>
          /\ produced = ALWABPSolution(t1, w1)
    /\ s_current = 1
    /\ s_prime = 0
    /\ \/ vnd_l = 1 /\ pc = "vnd_while" /\ search = <<>>
       \/ vnd_l = 0 /\ pc = "task_while" /\ search = Frame("local_search_task_reassignment", 1)
       \/ vnd_l = 0 /\ pc = "swap_while" /\ search = Frame("local_search_worker_swap", 1)
    /\ num_starts = NumStarts /\ max_iter = 0 /\ k_max = 0 /\ time_limit = FALSE
    /\ best = 0 /\ starts = 0 /\ s_initial = 0 /\ s_best = 0 /\ s_prime_prime = 0
    /\ k = 0 /\ iteration = 0 /\ attempt = 0 /\ evals = 0
    /\ twin = <<>> /\ stdin = <<>> /\ parsed = <<>> /\ lists = <<>>

SearchUnchanged ==
    UNCHANGED <<lists, stdin, parsed, inst, twin, produced, num_starts, max_iter, k_max,
                time_limit, best, starts, s_initial, s_best, s_prime_prime, k, iteration,
                attempt, evals>>

\* return s_current, of a local search
SearchReturns ==
    /\ s_prime' = search.s_current
    /\ pc' = "search_returned"

\* tasks_in_worst, as the set of its elements
tasksInWorst(cur, worst_station) ==
    { i \in Range0(inst.num_tasks) : cur.task_station_assignment[i] = worst_station }

\* a bug the search could have: the tasks of the station are scanned from the last
nextRelocationDescending(tasks_in_worst, i, s_new) ==
    IF s_new + 1 < inst.num_workers THEN [i |-> i, s_new |-> s_new + 1]
    ELSE IF \E j \in tasks_in_worst : i = -1 \/ j < i
         THEN [i |-> CHOOSE j \in tasks_in_worst :
                        /\ (i = -1 \/ j < i)
                        /\ \A j2 \in tasks_in_worst : (i = -1 \/ j2 < i) => j2 <= j,
               s_new |-> 0]
         ELSE [i |-> -1, s_new |-> 0]

\* the candidate after (i, s_new) in the two nested for loops: the next station, or
\* station 0 of the next task of tasks_in_worst (the first one after i = -1); the
\* result has i = -1 when the loops are over
nextRelocation(tasks_in_worst, i, s_new) ==
    IF s_new + 1 < inst.num_workers THEN [i |-> i, s_new |-> s_new + 1]
    ELSE IF \E j \in tasks_in_worst : j > i
         THEN [i |-> MinOf({ j \in tasks_in_worst : j > i }), s_new |-> 0]
         ELSE [i |-> -1, s_new |-> 0]

\* the top of `while True` in local_search_task_reassignment: evaluate, the two
\* early returns, the bottleneck station and its tasks
TaskBegin ==
    /\ pc = "task_while"
    /\ heap' = [heap EXCEPT ![search.s_current] = evaluate(inst, @)]
    /\ LET cur == evaluate(inst, heap[search.s_current])
       IN  IF ~scans(inst, cur)
           THEN SearchReturns /\ UNCHANGED search
           ELSE IF inst.num_workers = 0
           THEN pc' = "raised" /\ UNCHANGED <<search, s_prime>>
           ELSE LET worst_station == worstStation(cur.station_times, inst.num_workers)
                    tasks_in_worst == tasksInWorst(cur, worst_station)
                IN  IF tasks_in_worst = {}
                    THEN SearchReturns /\ UNCHANGED search
                    ELSE /\ search' = [search EXCEPT
                                         !.worst_station = worst_station,
                                         !.i = nextRelocation(tasks_in_worst, -1, inst.num_workers - 1).i,
                                         !.s_new = 0,
                                         !.s_neighbor = <<>>]
                         /\ pc' = "task_for"
                         /\ UNCHANGED s_prime
    /\ UNCHANGED <<s_current, vnd_l>>
    /\ SearchUnchanged

\* one pass of `for s_new in range(m)` for the task i
TaskTry ==
    /\ pc = "task_for"
    /\ LET cur == heap[search.s_current]
           i == search.i
           s_new == search.s_new
           new_t == [cur.task_station_assignment EXCEPT ![i] = s_new]
           built == /\ s_new # cur.task_station_assignment[i]
                    /\ check_precedence_feasibility(inst, new_t)
                    /\ inst.task_times[cur.worker_station_assignment[s_new]][i] < INF
           s_neighbor == evaluate(inst, ALWABPSolution(new_t, cur.worker_station_assignment))
           next == nextRelocation(tasksInWorst(cur, search.worst_station), i, s_new)
       IN  IF built /\ accepts(s_neighbor, cur)
           THEN /\ heap' = Append(heap, s_neighbor)
                /\ search' = [search EXCEPT !.s_current = Len(heap) + 1,
                                            !.s_neighbor = << s_neighbor >>]
                /\ pc' = "task_while"
                /\ UNCHANGED s_prime
           ELSE /\ heap' = heap
                /\ search' = [search EXCEPT !.i = IF next.i = -1 THEN @ ELSE next.i,
                                            !.s_new = IF next.i = -1 THEN @ ELSE next.s_new,
                                            !.s_neighbor = IF built THEN << s_neighbor >> ELSE <<>>]
                /\ IF next.i = -1 THEN SearchReturns ELSE pc' = pc /\ UNCHANGED s_prime
    /\ UNCHANGED <<s_current, vnd_l>>
    /\ SearchUnchanged

\* the top of `while True` in local_search_worker_swap
SwapBegin ==
    /\ pc = "swap_while"
    /\ heap' = [heap EXCEPT ![search.s_current] = evaluate(inst, @)]
    /\ LET cur == evaluate(inst, heap[search.s_current])
       IN  IF ~scans(inst, cur)
           THEN SearchReturns /\ UNCHANGED search
           ELSE IF inst.num_workers = 0
           THEN pc' = "raised" /\ UNCHANGED <<search, s_prime>>
           ELSE /\ search' = [search EXCEPT
                                !.worst_station = worstStation(cur.station_times, inst.num_workers),
                                !.s2 = 0,
                                !.s_neighbor = <<>>]
                /\ pc' = "swap_for"
                /\ UNCHANGED s_prime
    /\ UNCHANGED <<s_current, vnd_l>>
    /\ SearchUnchanged

\* a bug the search could have: the scan does not advance
nextStationStuck(s2) == s2

\* the station after s2 in `for s2 in range(m)`; -1 when the loop is over
nextStation(s2) == IF s2 + 1 < inst.num_workers THEN s2 + 1 ELSE -1

\* one pass of `for s2 in range(m)`
SwapTry ==
    /\ pc = "swap_for"
    /\ LET cur == heap[search.s_current]
           s2 == search.s2
           new_w == swap(cur.worker_station_assignment, search.worst_station, s2)
           built == /\ s2 # search.worst_station
                    /\ swapCapable(inst, cur.task_station_assignment, new_w)
           s_neighbor == evaluate(inst, ALWABPSolution(cur.task_station_assignment, new_w))
       IN  IF built /\ accepts(s_neighbor, cur)
           THEN /\ heap' = Append(heap, s_neighbor)
                /\ search' = [search EXCEPT !.s_current = Len(heap) + 1,
                                            !.s_neighbor = << s_neighbor >>]
                /\ pc' = "swap_while"
                /\ UNCHANGED s_prime
           ELSE /\ heap' = heap
                /\ search' = [search EXCEPT !.s2 = IF nextStation(s2) = -1 THEN @ ELSE nextStation(s2),
                                            !.s_neighbor = IF built THEN << s_neighbor >> ELSE <<>>]
                /\ IF nextStation(s2) = -1 THEN SearchReturns ELSE pc' = pc /\ UNCHANGED s_prime
    /\ UNCHANGED <<s_current, vnd_l>>
    /\ SearchUnchanged

\* vnd: `while l <= l_max` calls the search of index l on s_current, or returns
VndWhile ==
    /\ pc = "vnd_while"
    /\ IF vnd_l <= 2
       THEN IF vnd_l = 1
            THEN search' = Frame("local_search_task_reassignment", s_current) /\ pc' = "task_while"
            ELSE search' = Frame("local_search_worker_swap", s_current) /\ pc' = "swap_while"
       ELSE /\ pc' = "vnd_returned"
            /\ UNCHANGED search
    /\ UNCHANGED <<heap, s_current, s_prime, vnd_l>>
    /\ SearchUnchanged

\* vnd: if s_prime < s_current: s_current = s_prime; l = 1; else: l += 1
VndAdopt ==
    /\ pc = "search_returned"
    /\ vnd_l >= 1
    /\ IF Lt(heap[s_prime], heap[s_current])
       THEN s_current' = s_prime /\ vnd_l' = 1
       ELSE s_current' = s_current /\ vnd_l' = vnd_l + 1
    /\ pc' = "vnd_while"
    /\ UNCHANGED <<heap, search, s_prime>>
    /\ SearchUnchanged

NextSearch == TaskBegin \/ TaskTry \/ SwapBegin \/ SwapTry \/ VndWhile \/ VndAdopt

SpecSearch == InitSearch /\ [][NextSearch]_vars

\* the loops stepped one candidate at a time return what the searches and vnd of
\* the driver return in one step
SearchAgreesWithDriver ==
    /\ (pc = "search_returned" /\ vnd_l = 0) =>
          IF search.function = "local_search_task_reassignment"
          THEN heap[s_prime] = local_search_task_reassignment(inst, <<produced>>, 1).heap[
                                   local_search_task_reassignment(inst, <<produced>>, 1).ref]
          ELSE heap[s_prime] = local_search_worker_swap(inst, <<produced>>, 1).heap[
                                   local_search_worker_swap(inst, <<produced>>, 1).ref]
    /\ pc = "vnd_returned" =>
          heap[s_current] = vnd(inst, <<produced>>, 1).heap[vnd(inst, <<produced>>, 1).ref]
    /\ pc = "raised" => inst.num_workers = 0

\* ------------------------------------- properties of the local searches
\* feasibility, station time and cycle time as the data model defines them
FeasibleByDef(sol) == IndicesValid(sol) /\ PrecedencesKept(sol) /\ WorkersCapable(sol)

TimeOf(sol, s) == StationWork(sol, s, sol.worker_station_assignment[s], inst.num_tasks)

CycleOf(sol) ==
    IF Stations = {} THEN 0
    ELSE TimeOf(sol, CHOOSE s \in Stations : \A x \in Stations : TimeOf(sol, x) <= TimeOf(sol, s))

\* the bottleneck: the lowest-index station among those of maximum station time
Bottleneck(sol) ==
    CHOOSE s \in Stations :
        /\ TimeOf(sol, s) = CycleOf(sol)
        /\ \A x \in Stations : TimeOf(sol, x) = CycleOf(sol) => s <= x

\* sol with task i on station s
Relocated(sol, i, s) ==
    [task_station_assignment |-> [sol.task_station_assignment EXCEPT ![i] = s],
     worker_station_assignment |-> sol.worker_station_assignment]

\* moving task i of the bottleneck station of sol to another station s gives a
\* feasible solution of strictly smaller cycle time
RelocationImproves(sol, i, s) ==
    /\ sol.task_station_assignment[i] = Bottleneck(sol)
    /\ s # sol.task_station_assignment[i]
    /\ FeasibleByDef(Relocated(sol, i, s))
    /\ CycleOf(Relocated(sol, i, s)) < CycleOf(sol)

SameArrays(a, b) ==
    /\ a.task_station_assignment = b.task_station_assignment
    /\ a.worker_station_assignment = b.worker_station_assignment

\* new is the first improving relocation of cur in scan order: tasks by increasing
\* index, stations by increasing index
FirstImprovingRelocation(cur, new) ==
    \E i \in Tasks, s \in Stations :
        /\ RelocationImproves(cur, i, s)
        /\ SameArrays(new, Relocated(cur, i, s))
        /\ \A i2 \in Tasks, s2 \in Stations :
              PairLt(<<i2, s2>>, <<i, s>>) => ~RelocationImproves(cur, i2, s2)

\* C23: the task-reassignment search accepts, from the current solution, the first
\* relocation in scan order (tasks of the lowest-index station of maximum time by
\* increasing index, target stations by increasing index) that is feasible and has a
\* strictly smaller cycle time, recomputing the bottleneck after every acceptance; it
\* returns a feasible solution only when no relocation of a task of its bottleneck
\* station improves it, and it returns an infeasible input at once.
C23_TaskSearchFirstImprovement ==
    [][ search'.function = "local_search_task_reassignment" =>
          /\ (pc = "task_for" /\ pc' = "task_while") =>
                FirstImprovingRelocation(heap[search.s_current], heap'[search'.s_current])
          /\ (pc \in {"task_while", "task_for"} /\ pc' = "search_returned") =>
                IF FeasibleByDef(heap[search.solution])
                THEN /\ FeasibleByDef(heap'[s_prime'])
                     /\ \A i \in Tasks, s \in Stations : ~RelocationImproves(heap'[s_prime'], i, s)
                ELSE /\ s_prime' = search.solution
                     /\ pc = "task_while"
                     /\ Len(heap') = 1 ]_vars

\* the task-reassignment search, called alone, returned after two accepted
\* relocations
C23_Witness ==
    /\ pc = "search_returned"
    /\ vnd_l = 0
    /\ search.function = "local_search_task_reassignment"
    /\ Len(heap) >= 3

\* sol with the workers of stations s1 and s2 exchanged
Exchanged(sol, s1, s2) ==
    [task_station_assignment |-> sol.task_station_assignment,
     worker_station_assignment |->
        [s \in Stations |-> IF s = s1 THEN sol.worker_station_assignment[s2]
                            ELSE IF s = s2 THEN sol.worker_station_assignment[s1]
                            ELSE sol.worker_station_assignment[s]]]

\* exchanging the worker of the bottleneck station of sol with that of another
\* station s2 gives a feasible solution of strictly smaller cycle time
ExchangeImproves(sol, s2) ==
    /\ s2 # Bottleneck(sol)
    /\ FeasibleByDef(Exchanged(sol, Bottleneck(sol), s2))
    /\ CycleOf(Exchanged(sol, Bottleneck(sol), s2)) < CycleOf(sol)

\* in sol, every task of the stations s1 and s2 is on a capable worker
CapableOnBoth(sol, s1, s2) ==
    \A i \in Tasks :
        sol.task_station_assignment[i] \in {s1, s2} =>
            inst.task_times[sol.worker_station_assignment[sol.task_station_assignment[i]]][i] # INF

Pos(topo, x) == CHOOSE p \in 1..Len(topo) : topo[p] = x

\* the position of the last predecessor of x in topo, 0 when x has none: the moment
\* x enters the queue of Kahn's algorithm
Ready(topo, x) ==
    IF \E e \in Edges : e[2] = x
    THEN CHOOSE p \in 1..Len(topo) :
            /\ \E e \in Edges : e[2] = x /\ topo[p] = e[1]
            /\ \A e \in Edges : e[2] = x => Pos(topo, e[1]) <= p
    ELSE 0

\* topo is an order of all tasks in which every task comes after its predecessors,
\* tasks leave in the order they became ready (first in, first out), and the tasks
\* without predecessors come by increasing index
KahnFifo(topo) ==
    /\ Len(topo) = inst.num_tasks
    /\ \A x \in Tasks : \E p \in 1..Len(topo) : topo[p] = x
    /\ \A e \in Edges : Pos(topo, e[1]) < Pos(topo, e[2])
    /\ \A a, b \in Tasks : Ready(topo, a) < Ready(topo, b) => Pos(topo, a) < Pos(topo, b)
    /\ \A a, b \in Tasks :
          (a < b /\ Ready(topo, a) = 0 /\ Ready(topo, b) = 0) => Pos(topo, a) < Pos(topo, b)

\* the construction placed every task
Successful(sol) == \A i \in Tasks : sol.task_station_assignment[i] # -1

\* C25: in a successful greedy construction the tasks are placed in the order of
\* Kahn's algorithm with a first-in first-out queue, every task after all its
\* predecessors, and each task sits on the lowest-index station whose worker is
\* capable of it and which is not below the station of any of its predecessors.
C25_GreedyOrderAndLowestStation ==
    \A o \in Objects :
        Successful(heap[o]) =>
            /\ KahnFifo(topoOrder(inst))
            /\ FirstFit(heap[o].worker_station_assignment, heap[o].task_station_assignment)

\* a successful construction on three tasks with two precedences whose order is not
\* the order of the indices, with a task past the first station
C25_Witness ==
    /\ inst.num_tasks = 3
    /\ Len(inst.precedences) >= 2
    /\ topoOrder(inst) # <<0, 1, 2>>
    /\ \E o \in Objects :
          /\ Successful(heap[o])
          /\ \E i \in Tasks : heap[o].task_station_assignment[i] > 0

\* ------------------------------------------- current and best in the driver
\* the acceptance step of the older vns (alwabp_vns.py at the root of the
\* repository): k is reset only when s_best improves
AcceptStepRoot ==
    /\ pc = "accept"
    /\ IF Lt(heap[s_prime_prime], heap[s_current])
       THEN IF Lt(heap[s_prime_prime], heap[s_best])
            THEN /\ Store(heap, best, s_initial, s_prime_prime, s_prime_prime, 0, 0)
                 /\ k' = 1
            ELSE /\ Store(heap, best, s_initial, s_best, s_prime_prime, 0, 0)
                 /\ k' = k + 1
       ELSE /\ Store(heap, best, s_initial, s_best, s_current, 0, 0)
            /\ k' = k + 1
    /\ pc' = "inner"

\* C26: in every state of the driver s_current and s_best are the same object; a
\* step that replaces s_current replaces s_best by the same object, the case
\* 'current improves, best does not' never happens, and the acceptance step that
\* resets k only when s_best improves takes the same step as the one that resets k
\* whenever s_current improves.
C26_CurrentIsBest ==
    /\ [](s_current = s_best)
    /\ [][ pc = "accept" =>
             /\ Lt(heap[s_prime_prime], heap[s_current]) => Lt(heap[s_prime_prime], heap[s_best])
             /\ AcceptStepRoot ]_vars

\* the driver finished with a best solution that is not the initial one and is
\* strictly better than it
C26_Witness ==
    /\ pc = "done"
    /\ s_current # s_initial
    /\ s_current = s_best
    /\ Lt(heap[s_best], heap[s_initial])

\* ------------------------------------------------ the greedy is optimal per task
\* the task assignments that are feasible with the worker permutation w
FeasibleAssignments(w) ==
    { t \in [Tasks -> Stations] :
        FeasibleByDef([task_station_assignment |-> t, worker_station_assignment |-> w]) }

\* C27: on an acyclic precedence graph and for the worker permutation drawn, the
\* greedy construction fails to place a task only if no task assignment is feasible
\* with that permutation; when it succeeds the solution is feasible and every task is
\* on the smallest station it has in any feasible assignment for that permutation.
C27_GreedyMinimalStations ==
    \A o \in Objects :
        Acyclic =>
            IF Successful(heap[o])
            THEN /\ heap[o].is_feasible
                 /\ heap[o].task_station_assignment
                       \in FeasibleAssignments(heap[o].worker_station_assignment)
                 /\ \A t \in FeasibleAssignments(heap[o].worker_station_assignment) :
                       \A i \in Tasks : heap[o].task_station_assignment[i] <= t[i]
            ELSE FeasibleAssignments(heap[o].worker_station_assignment) = {}

\* on an acyclic instance with precedences, a construction succeeded with a task
\* past the first station although other feasible assignments exist
C27_Witness ==
    /\ Acyclic
    /\ Len(inst.precedences) >= 1
    /\ \E o \in Objects :
          /\ Successful(heap[o])
          /\ \E i \in Tasks : heap[o].task_station_assignment[i] > 0
          /\ Cardinality(FeasibleAssignments(heap[o].worker_station_assignment)) >= 2

\* ------------------------------------------------------- the descent
\* new is feasible and has a strictly smaller cycle time than old, by the data
\* model's definitions and by the cached fields
StrictlyBetterFeasible(new, old) ==
    /\ FeasibleByDef(new)
    /\ new.is_feasible
    /\ FeasibleByDef(old) => (CycleOf(new) < CycleOf(old) /\ new.cycle_time < old.cycle_time)

\* C28: every move a local search accepts gives a feasible solution of strictly
\* smaller cycle time than the solution it replaces; each local search and vnd
\* return their input or a solution strictly better than it; a feasible input gives
\* a feasible output whose cycle time is not larger.
C28_DescentIsMonotone ==
    /\ [][ /\ ((pc = "task_for" /\ pc' = "task_while") \/ (pc = "swap_for" /\ pc' = "swap_while")) =>
                /\ FeasibleByDef(heap[search.s_current])
                /\ StrictlyBetterFeasible(heap'[search'.s_current], heap[search.s_current])
           /\ pc' = "search_returned" =>
                /\ (s_prime' = search.solution
                      \/ (/\ FeasibleByDef(heap[search.solution])
                          /\ StrictlyBetterFeasible(heap'[s_prime'], heap'[search.solution])))
                /\ FeasibleByDef(heap[search.solution]) =>
                      /\ FeasibleByDef(heap'[s_prime'])
                      /\ CycleOf(heap'[s_prime']) <= CycleOf(heap[search.solution]) ]_vars
    /\ [](pc = "vnd_returned" =>
            /\ (s_current = 1 \/ (FeasibleByDef(heap[1]) /\ StrictlyBetterFeasible(heap[s_current], heap[1])))
            /\ FeasibleByDef(heap[1]) =>
                  /\ FeasibleByDef(heap[s_current])
                  /\ heap[s_current].is_feasible
                  /\ CycleOf(heap[s_current]) <= CycleOf(heap[1]))

\* vnd returned a solution reached by accepted moves of both searches
C28_Witness ==
    /\ pc = "vnd_returned"
    /\ s_current # 1
    /\ heap[s_current].task_station_assignment # heap[1].task_station_assignment
    /\ heap[s_current].worker_station_assignment # heap[1].worker_station_assignment

\* ------------------------------------------------------- termination
\* the loops go on as long as they can take a step
SpecSearchFair == SpecSearch /\ WF_vars(NextSearch)

\* the call has ended: the search called alone returned, vnd returned, or the
\* exception of the instance without workers left the call
Terminated ==
    \/ pc = "search_returned" /\ vnd_l = 0
    \/ pc = "vnd_returned"
    \/ pc = "raised"

\* C29: the task-reassignment search, the worker-swap search and vnd end on every
\* input solution of every instance.
C29_SearchesTerminate == <>Terminated

\* vnd ended after at least two accepted moves
C29_Witness ==
    /\ pc = "vnd_returned"
    /\ Len(heap) >= 3

\* ------------------------------------------------------ the cached fields
\* the cached is_feasible and cycle_time of sol are what evaluate() computes from
\* its arrays
CacheAgrees(sol) ==
    /\ sol.is_feasible = evaluate(inst, sol).is_feasible
    /\ sol.cycle_time = evaluate(inst, sol).cycle_time
    /\ sol.is_feasible = FeasibleByDef(sol)

\* C30: every solution a name of generate_initial_solution_multi or vns refers to,
\* the flagged ones the generator returns without evaluating included, has cached
\* is_feasible and cycle_time equal to what evaluate() computes from its arrays.
C30_CachedFieldsAgree ==
    \A o \in Objects : CacheAgrees(heap[o])

\* the driver ended with the flagged initial solution the generator had not
\* evaluated and a feasible best solution found from it
C30_Witness ==
    /\ pc = "done"
    /\ inst.num_tasks >= 1
    /\ heap[s_initial].task_station_assignment = [i \in Tasks |-> -1]
    /\ ~heap[s_initial].is_feasible
    /\ s_best # s_initial
    /\ heap[s_best].is_feasible
====
